---- MODULE Spec2Model ----
(***************************************************************************)
(* Derived-analytics core of the gold-price dashboard: the moving average, *)
(* the day-over-day deltas, the cumulative return between an entry and an  *)
(* exit date, and the asynchronous fetches that feed them.                 *)
(*                                                                         *)
(* JavaScript numbers are modelled by exact integers and exact rationals   *)
(* [n, d] in lowest terms; a value that is not a finite number (NaN,       *)
(* undefined) is a raw cell of kind "nan".  A calendar date (ISO string)   *)
(* is its day ordinal, 1 = 2025-01-01, so that the order of the strings,   *)
(* of the Date objects and of the ordinals agree.  JS null is Null for     *)
(* objects, NoError for the error message and NoDate ('') for a date.      *)
(***************************************************************************)
EXTENDS Integers, Sequences, FiniteSets

VARIABLES
    goldType,            \* useState: selected gold type
    period,              \* useState: selected period
    dataRefreshTrigger,  \* prop: bumped by the App on every data refresh
    chartType,           \* CumulativeReturnChart: 'percent' or 'money'
    entries,             \* CumulativeReturnChart: normalized, sorted series
    activePresetDays,    \* CumulativeReturnChart: explicitly chosen preset
    buyDate,             \* CumulativeReturnChart: entry date
    sellDate,            \* CumulativeReturnChart: exit date
    chartData,           \* useState: chart-ready data or Null
    stats,               \* useState: stats summary or Null
    loading,             \* useState: loading flag
    error,               \* useState: error message or NoError
    mounted,             \* the component's mount effect has run
    inflight,            \* requests awaiting their response, per captured key
    trendsDb,            \* backend: response served for each request key
    values,              \* calculateMovingAverage: argument values
    window,              \* calculateMovingAverage: argument window
    averages,            \* calculateMovingAverage: result (or not yet run)
    appState,            \* App: "initial", "mounted" or "unmounted"
    appLoading,          \* App useState loading: a manual update is running
    updateInFlight,      \* App: POST /api/data/update awaiting its response
    historicalInFlight,  \* App: POST /api/update-historical-data awaiting
    pricesInFlight,      \* App: GET /api/current-prices requests awaiting
    currentPrices,       \* App useState currentPrices: Null or the latest body
    ws,                  \* App wsRef.current: "none" or the socket's readyState
    wsConnected,         \* App useState wsConnected
    wsReconnecting,      \* App useState wsReconnecting
    reconnectTimer,      \* App reconnectTimeoutRef: id of the pending timer
    selectedGoldTypes,   \* UnifiedComparisonChart: the selected series, in order
    selectedDate,        \* PriceCards useState selectedDate
    historicalPrices,    \* PriceCards useState historicalPrices: Null or a body
    viewMode,            \* PriceCards useState viewMode: 'current' / 'historical'
    latestAvailableDate, \* PriceCards useState latestAvailableDate (NoDate: null)
    datesInFlight,       \* PriceCards: GET /api/available-dates awaiting
    historicalFetch,     \* PriceCards: date of the pending /api/prices-by-date
    today,               \* the calendar date of the browser's clock
    availableDates,      \* backend: response of /api/available-dates
    pricesByDate         \* backend: response of /api/prices-by-date per date

vars == <<goldType, period, dataRefreshTrigger, chartType, entries, activePresetDays,
          buyDate, sellDate, chartData, stats, loading, error, mounted,
          inflight, trendsDb, values, window, averages,
          appState, appLoading, updateInFlight, historicalInFlight, pricesInFlight,
          currentPrices, ws, wsConnected, wsReconnecting, reconnectTimer,
          selectedGoldTypes, selectedDate, historicalPrices, viewMode,
          latestAvailableDate, datesInFlight, historicalFetch, today,
          availableDates, pricesByDate>>

pcVars == <<selectedDate, historicalPrices, viewMode, latestAvailableDate,
            datesInFlight, historicalFetch, today, availableDates, pricesByDate>>

panelVars == <<selectedGoldTypes, pcVars>>

appVars == <<appState, appLoading, updateInFlight, historicalInFlight, pricesInFlight,
             currentPrices, ws, wsConnected, wsReconnecting, reconnectTimer>>

componentVars == <<goldType, period, dataRefreshTrigger, chartType, entries,
                   activePresetDays, buyDate, sellDate, chartData, stats,
                   loading, error, mounted, inflight, trendsDb, appVars, panelVars>>

maVars == <<values, window, averages>>

----------------------------------------------------------------------------
(* Bounds of the model.                                                    *)

MaxLen == 3          \* longest series / payload
MaxInFlight == 2     \* most requests awaiting a response at once
MaxRefresh == 1      \* most data refreshes signalled by the App
MaxWindow == 3       \* largest moving-average window tried
MaxRangeDays == 400  \* longest range of days a preset is matched against

----------------------------------------------------------------------------
(* Numbers.                                                                *)

Null == [null |-> TRUE]
NoError == "null"
NoDate == 0
NoPreset == 0
NotRun == <<[n |-> 0, d |-> 0]>>

Abs(x) == IF x < 0 THEN -x ELSE x

Max(a, b) == IF a >= b THEN a ELSE b

RECURSIVE GCD(_, _)
GCD(a, b) == IF b = 0 THEN a ELSE GCD(b, a % b)

Sign(x) == IF x < 0 THEN -1 ELSE IF x > 0 THEN 1 ELSE 0

\* The JS quotient n / d of two integers, in lowest terms with d > 0; a zero
\* divisor yields +Infinity, -Infinity or NaN, written [n |-> 1 / -1 / 0, d |-> 0].
Rat(n, d) ==
    IF d = 0
    THEN [n |-> Sign(n), d |-> 0]
    ELSE LET s == IF d < 0 THEN -1 ELSE 1
             g == GCD(Abs(n), Abs(d))
         IN  [n |-> (s * n) \div g, d |-> (s * d) \div g]

\* Math.round(n / d) for d > 0: the nearest integer, halves rounded up.
RoundDiv(n, d) == (2 * n + d) \div (2 * d)

\* Array.prototype.reduce((sum, value) => sum + value, 0)
RECURSIVE ReduceSum(_)
ReduceSum(s) == IF s = <<>> THEN 0 ELSE s[1] + ReduceSum(Tail(s))

\* Array.prototype.slice(start, end) with 0-based start and exclusive end,
\* already clamped to the array as the callers pass them.
Slice(s, start, end) == SubSeq(s, start + 1, end)

\* Math.max(...s) and Math.min(...s) of a non-empty array.
MathMax(s) == CHOOSE x \in {s[i] : i \in DOMAIN s} :
                  \A j \in DOMAIN s : s[j] <= x

MathMin(s) == CHOOSE x \in {s[i] : i \in DOMAIN s} :
                  \A j \in DOMAIN s : x <= s[j]

----------------------------------------------------------------------------
(* calculateMovingAverage(values, window).                                 *)

\* The slip of dividing by the nominal window instead of the slice length.
MovingAverageAtFixedDivisor(vals, w, index) ==
    LET start == Max(0, index - w + 1)
        slice == Slice(vals, start, index + 1)
        total == ReduceSum(slice)
    IN  Rat(total, w)

MovingAverageAt(vals, w, index) ==
    LET start == Max(0, index - w + 1)
        slice == Slice(vals, start, index + 1)
        total == ReduceSum(slice)
    IN  Rat(total, Len(slice))

\* index is the 0-based index of Array.prototype.map; element index of the
\* result sits at position index + 1 of the sequence.
calculateMovingAverage(vals, w) ==
    IF Len(vals) = 0
    THEN <<>>
    ELSE [p \in 1..Len(vals) |-> MovingAverageAt(vals, w, p - 1)]

MAValues == {10, 20, 30, 40}

RECURSIVE SeqsUpTo(_, _)
SeqsUpTo(S, n) ==
    IF n = 0 THEN {<<>>}
    ELSE LET shorter == SeqsUpTo(S, n - 1)
         IN  shorter \cup {Append(s, x) : s \in {t \in shorter : Len(t) = n - 1}, x \in S}

\* reconnectTimeoutRef.current: null (NoTimer) or the id of the pending timer.
NoTimer == 0

\* The App before it mounts.
AppIdle ==
    /\ appState = "initial"
    /\ appLoading = FALSE
    /\ updateInFlight = FALSE
    /\ historicalInFlight = FALSE
    /\ pricesInFlight = 0
    /\ currentPrices = Null
    /\ ws = "none"
    /\ wsConnected = FALSE
    /\ wsReconnecting = FALSE
    /\ reconnectTimer = NoTimer

\* PriceCards and UnifiedComparisonChart before they mount.
PCIdle ==
    /\ selectedDate = NoDate
    /\ historicalPrices = Null
    /\ viewMode = "current"
    /\ latestAvailableDate = NoDate
    /\ datesInFlight = FALSE
    /\ historicalFetch = NoDate
    /\ today = 1
    /\ availableDates = Null
    /\ pricesByDate = <<>>

UCIdle == selectedGoldTypes = <<>>

PanelIdle == PCIdle /\ UCIdle

ComponentIdle ==
    /\ AppIdle
    /\ PanelIdle
    /\ goldType = "SJC 1L"
    /\ period = "weekly"
    /\ dataRefreshTrigger = 0
    /\ chartType = "percent"
    /\ entries = <<>>
    /\ activePresetDays = NoPreset
    /\ buyDate = NoDate
    /\ sellDate = NoDate
    /\ chartData = Null
    /\ stats = Null
    /\ loading = FALSE
    /\ error = NoError
    /\ mounted = FALSE
    /\ inflight = <<>>
    /\ trendsDb = <<>>

MAInit ==
    /\ values \in SeqsUpTo(MAValues, MaxLen + 1)
    /\ window \in 1..MaxWindow
    /\ averages = NotRun
    /\ ComponentIdle

MAApply ==
    /\ averages = NotRun
    /\ averages' = calculateMovingAverage(values, window)
    /\ UNCHANGED <<values, window>>
    /\ UNCHANGED componentVars

MANext == MAApply

SpecMovingAverage == MAInit /\ [][MANext]_vars

\* The sum of vals over the 0-based indices lo..hi, index by index.
RECURSIVE IndexSum(_, _, _)
IndexSum(vals, lo, hi) ==
    IF hi < lo THEN 0 ELSE vals[hi + 1] + IndexSum(vals, lo, hi - 1)

Whole(x) == [n |-> x, d |-> 1]

\* C7: for a non-empty sequence v and a window w >= 1 the result has the
\* length of v, element i is the arithmetic mean of v[max(0, i-w+1) .. i],
\* element 0 is v[0], element i is already fixed by v[0..i] (no lookahead),
\* and movingAverage([10,20,30,40], 2) = [10, 15, 25, 35].
C7_TrailingMean ==
    (averages # NotRun /\ Len(values) >= 1) =>
        /\ Len(averages) = Len(values)
        /\ \A i \in 0..(Len(values) - 1) :
              LET lo == IF i - window + 1 > 0 THEN i - window + 1 ELSE 0
                  a == averages[i + 1]
              IN  /\ a.d > 0
                  /\ a.n * (i - lo + 1) = IndexSum(values, lo, i) * a.d
                  /\ a = calculateMovingAverage(SubSeq(values, 1, i + 1), window)[i + 1]
        /\ averages[1] = Whole(values[1])
        /\ (values = <<10, 20, 30, 40>> /\ window = 2) =>
              averages = <<Whole(10), Whole(15), Whole(25), Whole(35)>>

C7_Witness ==
    /\ values = <<10, 20, 30, 40>>
    /\ window = 2
    /\ averages = <<Whole(10), Whole(15), Whole(25), Whole(35)>>

----------------------------------------------------------------------------
(* The /api/analytics/trends collaborator and the raw payload.             *)

GoldTypes == {"SJC 1L", "SJC Ring 1C"}
Periods == {"weekly", "monthly"}

\* The parameters a request is issued with (captured by the async closure).
Keys == [goldType : GoldTypes, period : Periods]

\* A raw JSON cell: a number, null, or something Number() turns into NaN.
NumCell(v) == [k |-> "num", v |-> v]
NullCell == [k |-> "null", v |-> 0]
NaNCell == [k |-> "nan", v |-> 0]

\* Number(cell): null converts to 0, a non-numeric cell to NaN.
Number(cell) ==
    CASE cell.k = "num" -> [fin |-> TRUE, v |-> cell.v]
      [] cell.k = "null" -> [fin |-> TRUE, v |-> 0]
      [] OTHER -> [fin |-> FALSE, v |-> 0]

\* The i-th date the backend serves (ascending, crossing a month end).
DateAt(i) == 29 + i

\* Responses: the request rejects, the body has no trends, or it has them.
\* or it has the dates without the price arrays (reading a price then throws).
Rejected == [kind |-> "reject"]
NoTrends == [kind |-> "notrends"]
NoPrices(dates) == [kind |-> "noprices", dates |-> dates]
Trends(dates, buys, sells) ==
    [kind |-> "trends", dates |-> dates, buy_prices |-> buys, sell_prices |-> sells]

\* Date.getDate / getMonth / getFullYear of a day ordinal (1 = 2025-01-01).
MonthDays == <<31, 28, 31, 30, 31, 30, 31, 31, 30, 31, 30, 31>>

RECURSIVE CalendarOf(_, _, _)
CalendarOf(year, month, day) ==
    IF day <= MonthDays[month]
    THEN [dd |-> day, mm |-> month, yyyy |-> year]
    ELSE IF month = 12
         THEN CalendarOf(year + 1, 1, day - MonthDays[month])
         ELSE CalendarOf(year, month + 1, day - MonthDays[month])

\* `${day}/${month}/${year}`
formatDateLabel(date) == CalendarOf(2025, 1, date)

\* Array.prototype.filter(Boolean) over the mapped rows.
RECURSIVE FilterFinite(_)
FilterFinite(rows) ==
    IF rows = <<>> THEN <<>>
    ELSE IF Head(rows).fin
         THEN <<Head(rows).row>> \o FilterFinite(Tail(rows))
         ELSE FilterFinite(Tail(rows))

\* x || null for a number x.
OrNull(x) == IF x = 0 THEN Null ELSE [num |-> x]

----------------------------------------------------------------------------
(* DailyChangeBarChart.                                                    *)

MILLION == 1000000

\* trends.dates.map(...).filter(Boolean): rows with a finite buy price.
\* The slip of keeping the rows whose buy price is not a finite number.
DailyChangeEntriesUnfiltered(resp) ==
    [i \in 1..Len(resp.dates) |->
        [date |-> resp.dates[i], buy |-> Number(resp.buy_prices[i]).v]]

DailyChangeEntries(resp) ==
    FilterFinite([i \in 1..Len(resp.dates) |->
        LET buy == Number(resp.buy_prices[i])
        IN  [fin |-> buy.fin, row |-> [date |-> resp.dates[i], buy |-> buy.v]]])

\* The slip of subtracting in the wrong direction.
DailyChangesReversed(ents) ==
    [k \in 1..(Len(ents) - 1) |-> ents[k].buy - ents[k + 1].buy]

DailyChanges(ents) ==
    [k \in 1..(Len(ents) - 1) |-> ents[k + 1].buy - ents[k].buy]

DailyChangeLabels(ents) ==
    [k \in 1..(Len(ents) - 1) |-> formatDateLabel(ents[k + 1].date)]

DailyChangeStats(changes) ==
    [latestChange |-> OrNull(changes[Len(changes)]),
     maxGain |-> MathMax(changes),
     maxDrop |-> MathMin(changes),
     averageChange |-> Rat(ReduceSum(changes), Len(changes))]

DailyChangeChart(ents, changes) ==
    [labels |-> DailyChangeLabels(ents),
     data |-> [k \in 1..Len(changes) |-> Rat(changes[k], MILLION)]]

\* What the try / catch of fetchChangeData writes once the response is in.
DailyChangeOutcome(resp) ==
    IF resp.kind = "reject"
    THEN [chartData |-> Null, stats |-> Null, failed |-> TRUE]
    ELSE IF resp.kind = "notrends" \/ Len(resp.dates) < 2
    THEN [chartData |-> Null, stats |-> Null, failed |-> FALSE]
    ELSE IF resp.kind = "noprices"
    THEN [chartData |-> Null, stats |-> Null, failed |-> TRUE]
    ELSE LET ents == DailyChangeEntries(resp)
         IN  IF Len(ents) < 2
             THEN [chartData |-> Null, stats |-> Null, failed |-> FALSE]
             ELSE LET changes == DailyChanges(ents)
                  IN  [chartData |-> DailyChangeChart(ents, changes),
                       stats |-> DailyChangeStats(changes),
                       failed |-> FALSE]

DailyChangeError == "Unable to load daily change data right now."

NoneInFlight == [k \in Keys |-> 0]

\* State of the other components, which DailyChangeBarChart does not have.
dcFrame == <<chartType, entries, activePresetDays, buyDate, sellDate, values, window,
             averages, appVars, panelVars>>

InFlightCount == LET RECURSIVE Total(_)
                     Total(S) == IF S = {} THEN 0
                                 ELSE LET k == CHOOSE x \in S : TRUE
                                      IN  inflight[k] + Total(S \ {k})
                 IN  Total(DOMAIN inflight)

\* The part of fetchChangeData before the await, for parameters key.
DCFetchStart(key) ==
    /\ InFlightCount < MaxInFlight
    /\ loading' = TRUE
    /\ error' = NoError
    /\ inflight' = [inflight EXCEPT ![key] = @ + 1]
    /\ UNCHANGED <<chartData, stats>>

\* useEffect on mount.
DCMount ==
    /\ ~mounted
    /\ mounted' = TRUE
    /\ DCFetchStart([goldType |-> goldType, period |-> period])
    /\ UNCHANGED <<goldType, period, dataRefreshTrigger, trendsDb>>
    /\ UNCHANGED dcFrame

\* handlePeriodChange, and the effect its re-render runs.
DChandlePeriodChange(value) ==
    /\ mounted
    /\ value # period
    /\ period' = value
    /\ DCFetchStart([goldType |-> goldType, period |-> value])
    /\ UNCHANGED <<goldType, dataRefreshTrigger, mounted, trendsDb>>
    /\ UNCHANGED dcFrame

\* handleGoldTypeChange, and the effect its re-render runs.
DChandleGoldTypeChange(value) ==
    /\ mounted
    /\ value # goldType
    /\ goldType' = value
    /\ DCFetchStart([goldType |-> value, period |-> period])
    /\ UNCHANGED <<period, dataRefreshTrigger, mounted, trendsDb>>
    /\ UNCHANGED dcFrame

\* The App bumps dataRefreshTrigger; the effect refetches.
DCRefresh ==
    /\ mounted
    /\ dataRefreshTrigger < MaxRefresh
    /\ dataRefreshTrigger' = dataRefreshTrigger + 1
    /\ DCFetchStart([goldType |-> goldType, period |-> period])
    /\ UNCHANGED <<goldType, period, mounted, trendsDb>>
    /\ UNCHANGED dcFrame

\* The slip of a catch block that calls fetchChangeData again.
DCDeliverRetrying(key) ==
    /\ inflight[key] > 0
    /\ LET o == DailyChangeOutcome(trendsDb[key])
       IN  /\ chartData' = o.chartData
           /\ stats' = o.stats
           /\ error' = IF o.failed THEN NoError ELSE error
           /\ loading' = o.failed
           /\ inflight' = IF o.failed THEN inflight
                          ELSE [inflight EXCEPT ![key] = @ - 1]
    /\ UNCHANGED <<goldType, period, dataRefreshTrigger, mounted, trendsDb>>
    /\ UNCHANGED dcFrame

\* The response of a pending request arrives: the rest of fetchChangeData.
DCDeliver(key) ==
    /\ inflight[key] > 0
    /\ inflight' = [inflight EXCEPT ![key] = @ - 1]
    /\ LET o == DailyChangeOutcome(trendsDb[key])
       IN  /\ chartData' = o.chartData
           /\ stats' = o.stats
           /\ error' = IF o.failed THEN DailyChangeError ELSE error
    /\ loading' = FALSE
    /\ UNCHANGED <<goldType, period, dataRefreshTrigger, mounted, trendsDb>>
    /\ UNCHANGED dcFrame

DeltaCells == {NumCell(100), NumCell(110), NullCell, NaNCell}

DatesUpTo(n) == [i \in 1..n |-> DateAt(i)]

\* Every payload of at most MaxLen rows over DeltaCells (sell prices unused).
DeltaResponses ==
    {Rejected, NoTrends} \cup {NoPrices(DatesUpTo(n)) : n \in 0..MaxLen} \cup
    UNION {{Trends(DatesUpTo(n), b, b) : b \in [1..n -> DeltaCells]} : n \in 0..MaxLen}

\* Three responses that differ, for backends serving different keys differently.
DistinctResponses ==
    {Rejected,
     Trends(DatesUpTo(2), <<NumCell(100), NumCell(110)>>, <<NumCell(100), NumCell(110)>>),
     Trends(DatesUpTo(2), <<NumCell(110), NumCell(100)>>, <<NumCell(110), NumCell(100)>>)}

DCInit ==
    /\ goldType = "SJC 1L"
    /\ period = "weekly"
    /\ dataRefreshTrigger = 0
    /\ chartType = "percent"
    /\ entries = <<>>
    /\ activePresetDays = NoPreset
    /\ buyDate = NoDate
    /\ sellDate = NoDate
    /\ chartData = Null
    /\ stats = Null
    /\ loading = FALSE
    /\ error = NoError
    /\ mounted = FALSE
    /\ inflight = NoneInFlight
    /\ trendsDb \in {[k \in Keys |-> r] : r \in DeltaResponses}
                    \cup [Keys -> DistinctResponses]
    /\ values = <<>>
    /\ window = 1
    /\ averages = NotRun
    /\ AppIdle
    /\ PanelIdle

DCNext ==
    \/ DCMount
    \/ \E value \in Periods : DChandlePeriodChange(value)
    \/ \E value \in GoldTypes : DChandleGoldTypeChange(value)
    \/ DCRefresh
    \/ \E key \in Keys : DCDeliver(key)

SpecDailyChange == DCInit /\ [][DCNext]_vars

\* The indices of resp at which the buy price is a finite number, the value
\* there, and the 1-based index of the j-th such point.
ValidBuyIdx(resp) ==
    IF resp.kind # "trends" THEN {}
    ELSE {i \in 1..Len(resp.dates) : resp.buy_prices[i].k \in {"num", "null"}}

BuyAt(resp, i) == IF resp.buy_prices[i].k = "num" THEN resp.buy_prices[i].v ELSE 0

NthValidBuy(resp, j) ==
    CHOOSE i \in ValidBuyIdx(resp) :
        Cardinality({x \in ValidBuyIdx(resp) : x <= i}) = j

CurrentKey == [goldType |-> goldType, period |-> period]

\* C8: a response with n >= 2 valid buy prices v yields n-1 charted deltas,
\* delta k being v[k+1] - v[k] (charted in millions), and one label per
\* delta, the formatted date of point k+1.
C8_Deltas ==
    [][\A key \in Keys :
         LET resp == trendsDb[key]
             n == Cardinality(ValidBuyIdx(resp))
         IN  (DCDeliver(key) /\ n >= 2) =>
               /\ chartData' # Null
               /\ Len(chartData'.data) = n - 1
               /\ Len(chartData'.labels) = n - 1
               /\ \A k \in 1..(n - 1) :
                    LET a == NthValidBuy(resp, k)
                        b == NthValidBuy(resp, k + 1)
                        x == chartData'.data[k]
                    IN  /\ x.d > 0
                        /\ x.n * MILLION = (BuyAt(resp, b) - BuyAt(resp, a)) * x.d
                        /\ chartData'.labels[k] = CalendarOf(2025, 1, resp.dates[b])
    ]_vars

C8_Witness ==
    /\ mounted /\ ~loading /\ InFlightCount = 0
    /\ Cardinality(ValidBuyIdx(trendsDb[CurrentKey])) = 3
    /\ chartData # Null
    /\ Len(chartData.data) = 2
    /\ chartData.data[1] # chartData.data[2]

\* C9: a response whose series has fewer than 2 valid points (no trends, too
\* few rows, or too few rows left once the non-finite buy prices are
\* dropped) leaves chart data and stats both null; nothing is computed.
C9_Insufficient ==
    [][\A key \in Keys :
         LET resp == trendsDb[key]
         IN  (DCDeliver(key) /\ resp.kind # "reject"
                /\ Cardinality(ValidBuyIdx(resp)) < 2) =>
               /\ chartData' = Null
               /\ stats' = Null
               /\ ~loading'
    ]_vars

C9_Witness ==
    /\ mounted /\ ~loading /\ InFlightCount = 0
    /\ trendsDb[CurrentKey].kind = "trends"
    /\ Len(trendsDb[CurrentKey].dates) >= 2
    /\ Cardinality(ValidBuyIdx(trendsDb[CurrentKey])) = 1
    /\ chartData = Null /\ stats = Null /\ error = NoError

\* C19: a failed fetch issues no request of its own, and a request is
\* issued only by a step that mounts the component or changes one of its
\* fetch parameters (gold type, period) or dataRefreshTrigger.
C19_NoAutomaticRetry ==
    [][/\ \A key \in Keys :
             (DCDeliver(key) /\ DailyChangeOutcome(trendsDb[key]).failed) =>
                 /\ inflight' = [inflight EXCEPT ![key] = @ - 1]
                 /\ error' = DailyChangeError
       /\ (\E key \in Keys : inflight'[key] > inflight[key]) =>
             \/ mounted' # mounted
             \/ goldType' # goldType
             \/ period' # period
             \/ dataRefreshTrigger' # dataRefreshTrigger
    ]_vars

\* A refresh was answered by a failure and nothing is in flight any more.
C19_Witness ==
    /\ mounted /\ ~loading
    /\ dataRefreshTrigger = 1
    /\ error = DailyChangeError
    /\ InFlightCount = 0

\* The delta sequence that is charted, back in currency units.
ChartedDeltas == [k \in 1..Len(chartData.data) |->
                    (chartData.data[k].n * MILLION) \div chartData.data[k].d]

\* C10: the stats are taken from the charted delta sequence d: latest is its
\* last element, max its largest, min its smallest, mean its sum over its
\* length, so min <= latest <= max and min <= mean <= max.
C10_StatsOfDeltas ==
    (stats # Null /\ chartData # Null) =>
        LET d == ChartedDeltas
            n == Len(d)
        IN  /\ n >= 1
            /\ stats.latestChange = [num |-> d[n]]
            /\ \A k \in 1..n : stats.maxDrop <= d[k] /\ d[k] <= stats.maxGain
            /\ \E k \in 1..n : stats.maxGain = d[k]
            /\ \E k \in 1..n : stats.maxDrop = d[k]
            /\ stats.averageChange.d > 0
            /\ stats.averageChange.n * n = IndexSum(d, 0, n - 1) * stats.averageChange.d
            /\ stats.maxDrop <= d[n] /\ d[n] <= stats.maxGain

----------------------------------------------------------------------------
(* CumulativeReturnChart: the return computation.                          *)

\* Date.getTime() of a day ordinal and MS_PER_DAY, both counted in seconds
\* (every date is a midnight, so the unit does not change any quotient).
MS_PER_DAY == 86400
getTime(date) == date * MS_PER_DAY

\* The slip of leaving the rows in the order they came in.
KeepInputOrder(ents) == ents

\* [...ents].sort((a, b) => new Date(a.date) - new Date(b.date)): a stable
\* sort by ascending date.
RECURSIVE InsertByDate(_, _)
InsertByDate(sorted, e) ==
    IF sorted = <<>> THEN <<e>>
    ELSE IF getTime(sorted[Len(sorted)].date) <= getTime(e.date)
         THEN Append(sorted, e)
         ELSE Append(InsertByDate(SubSeq(sorted, 1, Len(sorted) - 1), e),
                     sorted[Len(sorted)])

RECURSIVE SortByDate(_)
SortByDate(ents) ==
    IF ents = <<>> THEN <<>>
    ELSE InsertByDate(SortByDate(SubSeq(ents, 1, Len(ents) - 1)), ents[Len(ents)])

\* sorted.findIndex((entry) => entry.date === date): 0-based, -1 if absent.
FindIndex(sorted, date) ==
    IF \E i \in 1..Len(sorted) : sorted[i].date = date
    THEN (CHOOSE i \in 1..Len(sorted) :
              /\ sorted[i].date = date
              /\ \A j \in 1..(i - 1) : sorted[j].date # date) - 1
    ELSE -1

RangeOrderError == "Sell date must be the same as or after the buy date."
EmptyWindowError == "No data in the selected window."
UnavailableError == "Sell price unavailable for the selected start date."
NoDataError == "No data available for the selected gold type."
LoadError == "Unable to load return data right now."

EffectSkipped == [ran |-> FALSE]
EffectFailed(message) ==
    [ran |-> TRUE, chartData |-> Null, stats |-> Null, error |-> message]

\* The slip of taking the buy price of the entry point as the cost basis.
EntryCostOfBuy(windowEntries) == windowEntries[1].buy

\* Entry cost: the shop's SELL price on the first day of the window.
EntryCostOf(windowEntries) == windowEntries[1].sell

\* The slip of dividing whatever the cost basis is.
CostUsableAlways(entryCost) == TRUE

\* Number.isFinite(entryCost) && entryCost > 0; a stored entry is finite.
CostUsable(entryCost) == entryCost > 0

\* The slip of subtracting the exit time from the entry time.
HoldingDaysReversed(buy, sell) ==
    Max(0, RoundDiv(getTime(buy) - getTime(sell), MS_PER_DAY))

\* Math.max(0, Math.round((sellDate - buyDate) / (1000 * 60 * 60 * 24)))
HoldingDays(buy, sell) ==
    Max(0, RoundDiv(getTime(sell) - getTime(buy), MS_PER_DAY))

\* The computation pass over the window once the cost basis is usable.
ReturnResult(windowEntries, entryCost, buy, sell) ==
    LET n == Len(windowEntries)
        labels == [k \in 1..n |-> formatDateLabel(windowEntries[k].date)]
        returns == [k \in 1..n |->
                      Rat((windowEntries[k].buy - entryCost) * 100, entryCost)]
        absoluteReturns == [k \in 1..n |-> Rat(windowEntries[k].buy - entryCost, 1)]
        exitProceeds == windowEntries[n].buy
        absoluteChange == exitProceeds - entryCost
        holdingDays == HoldingDays(buy, sell)
    IN  [ran |-> TRUE,
         error |-> NoError,
         stats |-> [latestReturn |-> returns[n],
                    entryCost |-> entryCost,
                    exitProceeds |-> exitProceeds,
                    absoluteChange |-> absoluteChange,
                    holdingDays |-> holdingDays],
         chartData |-> [labels |-> labels,
                        data |-> returns,
                        absoluteData |-> absoluteReturns]]

\* The slip of dropping the order check of the two indices.
OrderViolatedNever(buyIndex, sellIndex) == FALSE

OrderViolated(buyIndex, sellIndex) == sellIndex < buyIndex

\* The body of useEffect(..., [entries, buyDate, sellDate]).
ReturnEffect(ents, buy, sell) ==
    IF Len(ents) = 0 \/ buy = NoDate \/ sell = NoDate
    THEN EffectSkipped
    ELSE LET sorted == SortByDate(ents)
             buyIndex == FindIndex(sorted, buy)
             sellIndex == FindIndex(sorted, sell)
         IN  IF buyIndex = -1 \/ sellIndex = -1
             THEN EffectSkipped
             ELSE IF OrderViolated(buyIndex, sellIndex)
             THEN EffectFailed(RangeOrderError)
             ELSE LET windowEntries == Slice(sorted, buyIndex, sellIndex + 1)
                  IN  IF Len(windowEntries) = 0
                      THEN EffectFailed(EmptyWindowError)
                      ELSE LET entryCost == EntryCostOf(windowEntries)
                           IN  IF ~CostUsable(entryCost)
                               THEN EffectFailed(UnavailableError)
                               ELSE ReturnResult(windowEntries, entryCost, buy, sell)

\* The effect as React runs it after a commit that set entries, buyDate and
\* sellDate to ents, buy, sell: it runs when one of them changed.
RunReturnEffect(changed, ents, buy, sell) ==
    LET o == IF changed THEN ReturnEffect(ents, buy, sell) ELSE EffectSkipped
    IN  IF o.ran
        THEN /\ chartData' = o.chartData
             /\ stats' = o.stats
             /\ error' = o.error
        ELSE UNCHANGED <<chartData, stats, error>>

\* handleBuyDateChange with event.target.value = value, and the effect.
handleBuyDateChange(value) ==
    /\ buyDate' = value
    /\ activePresetDays' = NoPreset
    /\ sellDate' = IF sellDate # NoDate /\ getTime(value) > getTime(sellDate)
                   THEN value ELSE sellDate
    /\ RunReturnEffect(<<buyDate', sellDate'>> # <<buyDate, sellDate>>,
                       entries, buyDate', sellDate')
    /\ UNCHANGED entries

\* handleSellDateChange with event.target.value = value, and the effect.
handleSellDateChange(value) ==
    /\ sellDate' = value
    /\ activePresetDays' = NoPreset
    /\ buyDate' = IF buyDate # NoDate /\ getTime(value) < getTime(buyDate)
                  THEN value ELSE buyDate
    /\ RunReturnEffect(<<buyDate', sellDate'>> # <<buyDate, sellDate>>,
                       entries, buyDate', sellDate')
    /\ UNCHANGED entries

DatesOf(ents) == {ents[i].date : i \in 1..Len(ents)}

QUICK_RANGE_PRESETS == <<7, 30, 90, 365>>

PresetDays == {QUICK_RANGE_PRESETS[i] : i \in 1..Len(QUICK_RANGE_PRESETS)}

\* The slip of a strict comparison: a date exactly N days back is passed over.
RECURSIVE QuickRangeCandidateStrict(_, _, _)
QuickRangeCandidateStrict(sorted, index, targetTime) ==
    IF index < 0 THEN sorted[1].date
    ELSE IF getTime(sorted[index + 1].date) < targetTime
         THEN sorted[index + 1].date
         ELSE QuickRangeCandidateStrict(sorted, index - 1, targetTime)

\* The loop of handleQuickRange from index (0-based) down to 0: the date of
\* the latest entry at or before targetTime, else the first date.
RECURSIVE QuickRangeCandidate(_, _, _)
QuickRangeCandidate(sorted, index, targetTime) ==
    IF index < 0 THEN sorted[1].date
    ELSE IF getTime(sorted[index + 1].date) <= targetTime
         THEN sorted[index + 1].date
         ELSE QuickRangeCandidate(sorted, index - 1, targetTime)

\* handleQuickRange(days), and the effect its re-render runs.
handleQuickRange(days) ==
    IF Len(entries) = 0
    THEN UNCHANGED <<entries, buyDate, sellDate, activePresetDays, chartData, stats, error>>
    ELSE LET sorted == SortByDate(entries)
             latest == sorted[Len(sorted)]
             latestDate == getTime(latest.date)
             targetTime == latestDate - days * MS_PER_DAY
             candidate == QuickRangeCandidate(sorted, Len(sorted) - 1, targetTime)
         IN  /\ sellDate' = latest.date
             /\ buyDate' = candidate
             /\ activePresetDays' = days
             /\ RunReturnEffect(<<buyDate', sellDate'>> # <<buyDate, sellDate>>,
                                entries, buyDate', sellDate')
             /\ UNCHANGED entries

\* handleResetRange, and the effect its re-render runs.
handleResetRange ==
    IF Len(entries) = 0
    THEN UNCHANGED <<entries, buyDate, sellDate, activePresetDays, chartData, stats, error>>
    ELSE /\ buyDate' = entries[1].date
         /\ sellDate' = entries[Len(entries)].date
         /\ activePresetDays' = NoPreset
         /\ RunReturnEffect(<<buyDate', sellDate'>> # <<buyDate, sellDate>>,
                            entries, buyDate', sellDate')
         /\ UNCHANGED entries

\* activeRange: the selected range in days, or null (NoRange) without dates.
NoRange == -1

activeRange ==
    IF buyDate = NoDate \/ sellDate = NoDate THEN NoRange
    ELSE Max(0, RoundDiv(getTime(sellDate) - getTime(buyDate), MS_PER_DAY))

\* The slip of one tolerance for every preset.
ToleranceFlat(days) == 2

\* The slip of a tolerance as wide as the preset itself.
ToleranceWide(days) == days

Tolerance(days) ==
    IF days >= 365 THEN 15 ELSE IF days >= 90 THEN 7 ELSE IF days >= 30 THEN 4 ELSE 2

\* matchesRange for a range of range days (NoRange for null).
RangeMatches(range, days) ==
    /\ range # NoRange
    /\ range >= Max(0, days - Tolerance(days))
    /\ range <= days + Tolerance(days)

matchesRange(days) == RangeMatches(activeRange, days)

isActive(days) ==
    activePresetDays = days \/ (activePresetDays = NoPreset /\ matchesRange(days))

CHART_TYPE_OPTIONS == {"percent", "money"}

\* The slip of showing the percentage array in both views.
displayChartDataPercentOnly ==
    IF chartData = Null THEN Null
    ELSE [labels |-> chartData.labels, data |-> chartData.data]

\* displayChartData: the stored array the current display mode selects.
displayChartData ==
    IF chartData = Null THEN Null
    ELSE [labels |-> chartData.labels,
          data |-> IF chartType = "money" THEN chartData.absoluteData
                   ELSE chartData.data]

----------------------------------------------------------------------------
(* The return computation on its own: every series, every pair of dates.   *)

ReturnPrices == {0, 100, 120}

ScenarioSeries ==
    <<[date |-> 1, buy |-> 100, sell |-> 110],
      [date |-> 2, buy |-> 105, sell |-> 115],
      [date |-> 3, buy |-> 120, sell |-> 130]>>

\* The series of n points over ReturnPrices, on dates that leave gaps.
SeriesOfLen(n) ==
    {[i \in 1..n |-> [date |-> DateAt(2 * i), buy |-> f[i][1], sell |-> f[i][2]]] :
        f \in [1..n -> ReturnPrices \X ReturnPrices]}

SeriesUpTo(n) == UNION {SeriesOfLen(k) : k \in 0..n} \cup {ScenarioSeries}

\* State of the component that the computation neither reads nor writes.
reFrame == <<goldType, period, dataRefreshTrigger, chartType, loading,
             inflight, trendsDb, values, window, averages, appVars, panelVars>>

REInit ==
    /\ goldType = "SJC 1L"
    /\ period = "yearly"
    /\ dataRefreshTrigger = 0
    /\ chartType = "percent"
    /\ entries \in SeriesUpTo(MaxLen)
    /\ activePresetDays = NoPreset
    /\ buyDate \in DatesOf(entries) \cup {NoDate}
    /\ sellDate \in DatesOf(entries) \cup {NoDate}
    /\ chartData = Null
    /\ stats = Null
    /\ loading = FALSE
    /\ error = NoError
    /\ mounted = FALSE
    /\ inflight = <<>>
    /\ trendsDb = <<>>
    /\ values = <<>>
    /\ window = 1
    /\ averages = NotRun
    /\ AppIdle
    /\ PanelIdle

\* The effect runs on the series and the dates it is given.
REEffect ==
    /\ ~mounted
    /\ mounted' = TRUE
    /\ RunReturnEffect(TRUE, entries, buyDate, sellDate)
    /\ UNCHANGED <<entries, activePresetDays, buyDate, sellDate>>
    /\ UNCHANGED reFrame

\* The entry select reports a date of the series.
REBuyDateChange(value) ==
    /\ mounted
    /\ handleBuyDateChange(value)
    /\ UNCHANGED mounted
    /\ UNCHANGED reFrame

\* The exit select reports a date of the series.
RESellDateChange(value) ==
    /\ mounted
    /\ handleSellDateChange(value)
    /\ UNCHANGED mounted
    /\ UNCHANGED reFrame

RENext ==
    \/ REEffect
    \/ \E value \in DatesOf(entries) : REBuyDateChange(value)
    \/ \E value \in DatesOf(entries) : RESellDateChange(value)

SpecReturn == REInit /\ [][RENext]_vars

\* The 1-based position of a date in the stored (date-ascending) series.
PosOf(date) == CHOOSE i \in 1..Len(entries) : entries[i].date = date

DatesChosen == buyDate \in DatesOf(entries) /\ sellDate \in DatesOf(entries)

\* C2: with entry index <= exit index and a positive cost basis, the cost
\* basis is the sell price of the entry point, there is one return value per
\* point of the closed slice, value k being (p.buy - costBasis) / costBasis
\* * 100 (the first point included, not forced to 0), and the stats report
\* entryCost, exitProceeds, absoluteChange and latestReturn accordingly; the
\* three-point scenario gives 110 / 120 / 10 and 100/11 percent.
C2_ReturnCurve ==
    (mounted /\ DatesChosen /\ PosOf(buyDate) <= PosOf(sellDate)
       /\ entries[PosOf(buyDate)].sell > 0) =>
        LET pb == PosOf(buyDate)
            ps == PosOf(sellDate)
            costBasis == entries[pb].sell
        IN  /\ error = NoError /\ chartData # Null /\ stats # Null
            /\ Len(chartData.data) = ps - pb + 1
            /\ Len(chartData.labels) = ps - pb + 1
            /\ \A k \in 1..(ps - pb + 1) :
                 LET r == chartData.data[k]
                 IN  /\ r.d > 0
                     /\ r.n * costBasis = (entries[pb + k - 1].buy - costBasis) * 100 * r.d
            /\ stats.entryCost = costBasis
            /\ stats.exitProceeds = entries[ps].buy
            /\ stats.absoluteChange = entries[ps].buy - costBasis
            /\ stats.latestReturn = chartData.data[ps - pb + 1]
            /\ (entries = ScenarioSeries /\ buyDate = 1 /\ sellDate = 3) =>
                 /\ stats.entryCost = 110
                 /\ stats.exitProceeds = 120
                 /\ stats.absoluteChange = 10
                 /\ stats.latestReturn = [n |-> 100, d |-> 11]

C2_Witness ==
    /\ mounted
    /\ entries = ScenarioSeries /\ buyDate = 1 /\ sellDate = 3
    /\ stats # Null
    /\ stats.entryCost = 110 /\ stats.exitProceeds = 120
    /\ chartData.data[1] = [n |-> -100, d |-> 11]

\* C3: when the exit date sits before the entry date in the series, no chart
\* data and no stats are produced and the error is the range-order error,
\* which is neither the "no data" nor the "unavailable" error.
C3_RangeOrder ==
    (mounted /\ DatesChosen /\ PosOf(sellDate) < PosOf(buyDate)) =>
        /\ chartData = Null
        /\ stats = Null
        /\ error = RangeOrderError
        /\ error \notin {NoError, NoDataError, EmptyWindowError, UnavailableError}

C3_Witness ==
    /\ mounted
    /\ entries = ScenarioSeries /\ buyDate = 3 /\ sellDate = 1
    /\ chartData = Null /\ stats = Null
    /\ error = RangeOrderError

C5_ZeroCostBasis ==
    (mounted /\ DatesChosen /\ PosOf(buyDate) <= PosOf(sellDate)
       /\ entries[PosOf(buyDate)].sell <= 0) =>
        /\ chartData = Null
        /\ stats = Null
        /\ error = UnavailableError

C5_Witness ==
    /\ mounted /\ DatesChosen
    /\ PosOf(buyDate) < PosOf(sellDate)
    /\ entries[PosOf(buyDate)].sell = 0
    /\ entries[PosOf(buyDate)].buy > 0
    /\ error = UnavailableError /\ chartData = Null /\ stats = Null

----------------------------------------------------------------------------
(* CumulativeReturnChart: the component, its fetches and its selects.      *)

DEFAULT_DATA_PERIOD == "yearly"

CRKeys == [goldType : GoldTypes, period : {DEFAULT_DATA_PERIOD}]

CRKey(g) == [goldType |-> g, period |-> DEFAULT_DATA_PERIOD]

\* The slip of checking the buy price only (a missing sell price kept as 0).
ProcessedEntriesBuyOnly(resp) ==
    FilterFinite([i \in 1..Len(resp.dates) |->
        LET buy == Number(resp.buy_prices[i])
            sell == Number(resp.sell_prices[i])
        IN  [fin |-> buy.fin,
             row |-> [date |-> resp.dates[i], buy |-> buy.v, sell |-> sell.v]]])

\* trends.dates.map(...).filter(Boolean): rows with finite buy and sell.
ProcessedEntries(resp) ==
    FilterFinite([i \in 1..Len(resp.dates) |->
        LET buy == Number(resp.buy_prices[i])
            sell == Number(resp.sell_prices[i])
        IN  [fin |-> buy.fin /\ sell.fin,
             row |-> [date |-> resp.dates[i], buy |-> buy.v, sell |-> sell.v]]])

\* The part of fetchData before the await, for gold type g.
CRFetchStart(g) ==
    /\ InFlightCount < MaxInFlight
    /\ loading' = TRUE
    /\ error' = NoError
    /\ entries' = <<>>
    /\ chartData' = Null
    /\ stats' = Null
    /\ activePresetDays' = NoPreset
    /\ inflight' = [inflight EXCEPT ![CRKey(g)] = @ + 1]
    /\ UNCHANGED <<buyDate, sellDate>>

\* State of the other components, which CumulativeReturnChart does not have.
crFrame == <<period, values, window, averages, appVars, panelVars>>

\* useEffect on mount.
CRMount ==
    /\ ~mounted
    /\ mounted' = TRUE
    /\ CRFetchStart(goldType)
    /\ UNCHANGED <<goldType, dataRefreshTrigger, chartType, trendsDb>>
    /\ UNCHANGED crFrame

\* setGoldType from the type select, and the effect its re-render runs.
CRsetGoldType(value) ==
    /\ mounted
    /\ value # goldType
    /\ goldType' = value
    /\ CRFetchStart(value)
    /\ UNCHANGED <<dataRefreshTrigger, chartType, mounted, trendsDb>>
    /\ UNCHANGED crFrame

\* The App bumps dataRefreshTrigger; the effect refetches.
CRRefresh ==
    /\ mounted
    /\ dataRefreshTrigger < MaxRefresh
    /\ dataRefreshTrigger' = dataRefreshTrigger + 1
    /\ CRFetchStart(goldType)
    /\ UNCHANGED <<goldType, chartType, mounted, trendsDb>>
    /\ UNCHANGED crFrame

\* The slip of keeping a selected date the new series does not have.
KeptOrDefaultStale(previous, sortedEntries, defaultDate) ==
    IF previous # NoDate THEN previous ELSE defaultDate

\* The updater passed to setBuyDate / setSellDate: previous &&
\* sortedEntries.some((entry) => entry.date === previous) ? previous : default.
KeptOrDefault(previous, sortedEntries, defaultDate) ==
    IF previous # NoDate /\ previous \in DatesOf(sortedEntries)
    THEN previous ELSE defaultDate

\* fetchData after the await when the body carries usable rows.
CRFetchSucceeded(processedEntries) ==
    LET sortedEntries == SortByDate(processedEntries)
        defaultBuyDate == sortedEntries[1].date
        defaultSellDate == sortedEntries[Len(sortedEntries)].date
    IN  /\ entries' = sortedEntries
        /\ buyDate' = KeptOrDefault(buyDate, sortedEntries, defaultBuyDate)
        /\ sellDate' = KeptOrDefault(sellDate, sortedEntries, defaultSellDate)
        /\ RunReturnEffect(TRUE, entries', buyDate', sellDate')

CRFetchFailed(message) ==
    /\ error' = message
    /\ UNCHANGED <<entries, buyDate, sellDate, chartData, stats>>

\* The response of a pending request arrives: the rest of fetchData.
CRDeliver(key) ==
    /\ inflight[key] > 0
    /\ inflight' = [inflight EXCEPT ![key] = @ - 1]
    /\ LET resp == trendsDb[key]
       IN  CASE resp.kind = "reject" -> CRFetchFailed(LoadError)
             [] resp.kind = "notrends" -> CRFetchFailed(NoDataError)
             [] resp.kind = "noprices" ->
                  CRFetchFailed(IF Len(resp.dates) = 0 THEN NoDataError ELSE LoadError)
             [] OTHER ->
                  IF Len(ProcessedEntries(resp)) = 0
                  THEN CRFetchFailed(NoDataError)
                  ELSE CRFetchSucceeded(ProcessedEntries(resp))
    /\ loading' = FALSE
    /\ UNCHANGED <<goldType, dataRefreshTrigger, chartType, activePresetDays,
                   mounted, trendsDb>>
    /\ UNCHANGED crFrame

\* The options the two selects offer.
buyOptions ==
    {entries[i].date : i \in {j \in 1..Len(entries) :
        sellDate = NoDate \/ getTime(entries[j].date) <= getTime(sellDate)}}

sellOptions ==
    {entries[i].date : i \in {j \in 1..Len(entries) :
        buyDate = NoDate \/ getTime(entries[j].date) >= getTime(buyDate)}}

\* The user picks an option of the entry select.
CRBuyDateChange(value) ==
    /\ mounted
    /\ handleBuyDateChange(value)
    /\ UNCHANGED <<goldType, dataRefreshTrigger, chartType, loading, mounted,
                   inflight, trendsDb>>
    /\ UNCHANGED crFrame

\* The user picks an option of the exit select.
CRSellDateChange(value) ==
    /\ mounted
    /\ handleSellDateChange(value)
    /\ UNCHANGED <<goldType, dataRefreshTrigger, chartType, loading, mounted,
                   inflight, trendsDb>>
    /\ UNCHANGED crFrame

\* A preset button (enabled once entries are loaded).
CRQuickRange(days) ==
    /\ mounted
    /\ Len(entries) > 0
    /\ handleQuickRange(days)
    /\ UNCHANGED <<goldType, dataRefreshTrigger, chartType, loading, mounted,
                   inflight, trendsDb>>
    /\ UNCHANGED crFrame

\* The "Reset to full range" button (enabled once entries are loaded).
CRResetRange ==
    /\ mounted
    /\ Len(entries) > 0
    /\ handleResetRange
    /\ UNCHANGED <<goldType, dataRefreshTrigger, chartType, loading, mounted,
                   inflight, trendsDb>>
    /\ UNCHANGED crFrame

\* A display-mode button: setChartType(option.value).
CRsetChartType(value) ==
    /\ mounted
    /\ chartType' = value
    /\ UNCHANGED <<goldType, dataRefreshTrigger, entries, activePresetDays, buyDate,
                   sellDate, chartData, stats, loading, error, mounted, inflight,
                   trendsDb>>
    /\ UNCHANGED crFrame

\* chartOptions.onClick on the element at elementIndex of the drawn chart:
\* the exit date becomes the date of that point of the window.
chartOnClick(elementIndex) ==
    LET sorted == SortByDate(entries)
        buyIndex == FindIndex(sorted, buyDate)
        start == IF buyIndex < 0 THEN Max(0, Len(sorted) + buyIndex) ELSE buyIndex
        windowEntries == Slice(sorted, start, Len(sorted))
    IN  IF elementIndex + 1 <= Len(windowEntries)
        THEN /\ sellDate' = windowEntries[elementIndex + 1].date
             /\ activePresetDays' = NoPreset
             /\ RunReturnEffect(sellDate' # sellDate, entries, buyDate, sellDate')
             /\ UNCHANGED <<entries, buyDate>>
        ELSE UNCHANGED <<entries, buyDate, sellDate, activePresetDays, chartData,
                         stats, error>>

\* A click on a point of the chart, which is drawn when there is no spinner
\* and no error placeholder.
CRchartOnClick(elementIndex) ==
    /\ mounted
    /\ ~loading /\ error = NoError /\ chartData # Null
    /\ elementIndex < Len(chartData.data)
    /\ chartOnClick(elementIndex)
    /\ UNCHANGED <<goldType, dataRefreshTrigger, chartType, loading, mounted,
                   inflight, trendsDb>>
    /\ UNCHANGED crFrame

\* Rows the backend may serve: a good one, one selling at 0, one whose sell
\* price and one whose buy price is not a number.
CRRows ==
    {<<NumCell(100), NumCell(110)>>, <<NumCell(120), NumCell(0)>>,
     <<NumCell(100), NaNCell>>, <<NaNCell, NumCell(110)>>}

CRTrends(n, rows) ==
    Trends([i \in 1..n |-> DateAt(2 * i)],
           [i \in 1..n |-> rows[i][1]], [i \in 1..n |-> rows[i][2]])

\* A payload whose rows do not come in ascending date order.
UnsortedTrends ==
    Trends(<<DateAt(4), DateAt(2)>>, <<NumCell(120), NumCell(100)>>,
           <<NumCell(130), NumCell(110)>>)

CRResponses ==
    {Rejected, NoTrends, UnsortedTrends} \cup {NoPrices(DatesUpTo(n)) : n \in 0..1} \cup
    UNION {{CRTrends(n, rows) : rows \in [1..n -> CRRows]} : n \in 0..MaxLen}

\* Three responses that differ, for backends serving the gold types differently.
DistinctCRResponses ==
    {Rejected,
     CRTrends(2, <<<<NumCell(100), NumCell(110)>>, <<NumCell(120), NumCell(130)>>>>),
     CRTrends(3, <<<<NumCell(120), NumCell(130)>>, <<NumCell(100), NumCell(110)>>,
                   <<NumCell(100), NumCell(110)>>>>)}

CRInit ==
    /\ goldType = "SJC 1L"
    /\ period = DEFAULT_DATA_PERIOD
    /\ dataRefreshTrigger = 0
    /\ chartType = "percent"
    /\ entries = <<>>
    /\ activePresetDays = NoPreset
    /\ buyDate = NoDate
    /\ sellDate = NoDate
    /\ chartData = Null
    /\ stats = Null
    /\ loading = FALSE
    /\ error = NoError
    /\ mounted = FALSE
    /\ inflight = [k \in CRKeys |-> 0]
    /\ trendsDb \in {[k \in CRKeys |-> r] : r \in CRResponses}
                    \cup [CRKeys -> DistinctCRResponses]
    /\ values = <<>>
    /\ window = 1
    /\ averages = NotRun
    /\ AppIdle
    /\ PanelIdle

CRNext ==
    \/ CRMount
    \/ \E value \in GoldTypes : CRsetGoldType(value)
    \/ CRRefresh
    \/ \E key \in CRKeys : CRDeliver(key)
    \/ \E value \in buyOptions : CRBuyDateChange(value)
    \/ \E value \in sellOptions : CRSellDateChange(value)
    \/ \E days \in PresetDays : CRQuickRange(days)
    \/ CRResetRange
    \/ \E value \in CHART_TYPE_OPTIONS : CRsetChartType(value)
    \/ \E elementIndex \in 0..(MaxLen - 1) : CRchartOnClick(elementIndex)

SpecCumulative == CRInit /\ [][CRNext]_vars

\* The same component in front of a backend whose history spans more than a
\* year, with gaps: the dates a series is drawn from, and the buy price
\* quoted on each (the sell price is 10 above it).
RangeDates == {1, 16, 300, 366, 386, 390, 396}

RangePrice(date) == 100 + 10 * (date % 4)

RECURSIVE AscendingSeq(_)
AscendingSeq(S) ==
    IF S = {} THEN <<>>
    ELSE LET m == CHOOSE x \in S : \A y \in S : x <= y
         IN  <<m>> \o AscendingSeq(S \ {m})

RangeTrends(S) ==
    LET dates == AscendingSeq(S)
        n == Len(dates)
    IN  Trends(dates, [i \in 1..n |-> NumCell(RangePrice(dates[i]))],
               [i \in 1..n |-> NumCell(RangePrice(dates[i]) + 10)])

RangeResponses ==
    {Rejected} \cup
    {RangeTrends(S) : S \in {T \in SUBSET RangeDates : Cardinality(T) <= MaxLen}}

RGInit ==
    /\ goldType = "SJC 1L"
    /\ period = DEFAULT_DATA_PERIOD
    /\ dataRefreshTrigger = 0
    /\ chartType = "percent"
    /\ entries = <<>>
    /\ activePresetDays = NoPreset
    /\ buyDate = NoDate
    /\ sellDate = NoDate
    /\ chartData = Null
    /\ stats = Null
    /\ loading = FALSE
    /\ error = NoError
    /\ mounted = FALSE
    /\ inflight = [k \in CRKeys |-> 0]
    /\ trendsDb \in {[k \in CRKeys |-> r] : r \in RangeResponses}
    /\ values = <<>>
    /\ window = 1
    /\ averages = NotRun
    /\ AppIdle
    /\ PanelIdle

SpecRange == RGInit /\ [][CRNext]_vars

\* The dates of the series at least N calendar days before its last date.
AtLeastDaysBack(days) ==
    {d \in DatesOf(entries) : d <= entries[Len(entries)].date - days}

\* C13: a preset of N days sets the exit date to the last date of the
\* series and the entry date to the latest date at least N calendar days
\* before it, or to the first date of the series when there is none; the
\* entry date is a date of the series between its first date and the exit.
C13_QuickRange ==
    [][\A days \in PresetDays :
         CRQuickRange(days) =>
            LET first == entries[1].date
                last == entries[Len(entries)].date
                Q == AtLeastDaysBack(days)
            IN  /\ sellDate' = last
                /\ Q # {} => (buyDate' \in Q /\ \A d \in Q : d <= buyDate')
                /\ Q = {} => buyDate' = first
                /\ buyDate' \in DatesOf(entries)
                /\ first <= buyDate' /\ buyDate' <= sellDate'
                /\ activePresetDays' = days
    ]_vars

\* The 30-day preset on a series with a date exactly 30 days back and an
\* older one: the entry is that date, not the first date of the series.
C13_Witness ==
    /\ Len(entries) = 3
    /\ entries[1].date = 300 /\ entries[2].date = 366 /\ entries[3].date = 396
    /\ activePresetDays = 30
    /\ buyDate = 366 /\ sellDate = 396
    /\ stats # Null

\* The tolerance the preset of N days is given.
PresetTolerance(days) ==
    CASE days = 7 -> 2 [] days = 30 -> 4 [] days = 90 -> 7 [] days = 365 -> 15

\* C14: with no preset explicitly chosen, the preset of N days is shown
\* active exactly when the selected range, in days, lies in
\* [max(0, N - t), N + t]; with a preset explicitly chosen, that preset and
\* no other is shown active.
C14_ActivePreset ==
    (buyDate # NoDate /\ sellDate # NoDate) =>
        /\ activePresetDays = NoPreset =>
              \A days \in PresetDays :
                 isActive(days) <=>
                    /\ sellDate - buyDate >= Max(0, days - PresetTolerance(days))
                    /\ sellDate - buyDate <= days + PresetTolerance(days)
        /\ activePresetDays # NoPreset =>
              \A days \in PresetDays : isActive(days) <=> days = activePresetDays

\* A range of 96 days lights the 90-day preset and no other.
C14_Witness ==
    /\ activePresetDays = NoPreset
    /\ buyDate = 300 /\ sellDate = 396
    /\ isActive(90)
    /\ \A days \in PresetDays \ {90} : ~isActive(days)

\* C15: the stored percentage and currency arrays come from one pass over
\* the same slice and cost basis (absolute[k] = p.buy - costBasis and
\* percent[k] = absolute[k] / costBasis * 100), the display shows the stored
\* array of the current mode, and switching the mode changes nothing else.
C15_OnePass ==
    [][/\ chartData' # Null =>
            LET pb == CHOOSE i \in 1..Len(entries') : entries'[i].date = buyDate'
                costBasis == entries'[pb].sell
                n == Len(chartData'.data)
            IN  /\ stats'.entryCost = costBasis
                /\ Len(chartData'.absoluteData) = n
                /\ \A k \in 1..n :
                     LET a == chartData'.absoluteData[k]
                         r == chartData'.data[k]
                     IN  /\ a.d = 1
                         /\ a.n = entries'[pb + k - 1].buy - costBasis
                         /\ r.d > 0
                         /\ r.n * costBasis = a.n * 100 * r.d
                /\ displayChartData'.labels = chartData'.labels
                /\ displayChartData'.data =
                      IF chartType' = "money" THEN chartData'.absoluteData
                      ELSE chartData'.data
       /\ \A value \in CHART_TYPE_OPTIONS :
            CRsetChartType(value) =>
                UNCHANGED <<chartData, stats, entries, buyDate, sellDate>>
    ]_vars

\* The currency view of a three-point series that ends below its cost basis.
C15_Witness ==
    /\ chartType = "money"
    /\ chartData # Null
    /\ Len(chartData.absoluteData) = 3
    /\ displayChartData.data = chartData.absoluteData
    /\ chartData.absoluteData[3].n < 0
    /\ chartData.data[3].n < 0

\* C16: holdingDays of a computed return is the calendar-day difference
\* exit minus entry, never negative, and 0 exactly for a one-day range.
C16_HoldingDays ==
    stats # Null =>
        /\ stats.holdingDays = sellDate - buyDate
        /\ stats.holdingDays >= 0
        /\ stats.holdingDays = 0 <=> buyDate = sellDate

C16_Witness ==
    /\ stats # Null
    /\ buyDate = 16 /\ sellDate = 396
    /\ stats.holdingDays = 380

\* C1: a response issued for parameters that are no longer selected, which
\* arrives after every request for the selected ones has been answered (so
\* after the newer response), does not overwrite the state on display.
C1_StaleDiscarded ==
    [][\A key \in CRKeys :
         (CRDeliver(key) /\ key # CRKey(goldType) /\ inflight[CRKey(goldType)] = 0) =>
              UNCHANGED <<entries, buyDate, sellDate, chartData, stats, error>>
    ]_vars

\* The indices of resp at which both prices are finite numbers.
ValidPointIdx(resp) ==
    IF resp.kind # "trends" THEN {}
    ELSE {i \in 1..Len(resp.dates) :
            /\ resp.buy_prices[i].k \in {"num", "null"}
            /\ resp.sell_prices[i].k \in {"num", "null"}}

\* The sell price at a valid index, the raw spread there, and the 1-based
\* index of the j-th point whose buy and sell are both finite.
SellAt(resp, i) == IF resp.sell_prices[i].k = "num" THEN resp.sell_prices[i].v ELSE 0

RawSpread(resp, i) == SellAt(resp, i) - BuyAt(resp, i)

NthValidPoint(resp, j) ==
    CHOOSE i \in ValidPointIdx(resp) :
        Cardinality({x \in ValidPointIdx(resp) : x <= i}) = j

\* C17: normalization keeps exactly the rows whose buy and sell are both
\* finite, each with the date, buy and sell of its own index, in the order
\* of the payload (the rows are not re-sorted).
C17_InputOrderKept ==
    [][\A key \in CRKeys :
         LET resp == trendsDb[key]
             n == Cardinality(ValidPointIdx(resp))
         IN  (CRDeliver(key) /\ n >= 1) =>
               /\ Len(entries') = n
               /\ \A k \in 1..n :
                    LET i == NthValidPoint(resp, k)
                    IN  entries'[k] = [date |-> resp.dates[i],
                                       buy |-> BuyAt(resp, i),
                                       sell |-> SellAt(resp, i)]
    ]_vars

\* The row of the payload at index i, as a point.
PointAt(resp, i) ==
    [date |-> resp.dates[i], buy |-> BuyAt(resp, i), sell |-> SellAt(resp, i)]

\* C17 (amended): normalization keeps exactly the rows whose buy and sell
\* are both finite, each with the date, buy and sell of its own index, and
\* stores them by ascending date; when the dates of the payload ascend,
\* that is the order of the payload.
C17_KeptByDate ==
    [][\A key \in CRKeys :
         LET resp == trendsDb[key]
             V == ValidPointIdx(resp)
             n == Cardinality(V)
         IN  (CRDeliver(key) /\ n >= 1) =>
               /\ Len(entries') = n
               /\ \A k \in 1..n : \E i \in V : entries'[k] = PointAt(resp, i)
               /\ \A i \in V : \E k \in 1..n : entries'[k] = PointAt(resp, i)
               /\ \A k \in 1..(n - 1) : entries'[k].date <= entries'[k + 1].date
               /\ (\A i, j \in V : i < j => resp.dates[i] <= resp.dates[j]) =>
                     \A k \in 1..n : entries'[k] = PointAt(resp, NthValidPoint(resp, k))
    ]_vars

\* The payload that lists a later date first is stored earliest date first.
C17_Witness ==
    /\ mounted /\ ~loading /\ InFlightCount = 0
    /\ trendsDb[CRKey(goldType)] = UnsortedTrends
    /\ Len(entries) = 2
    /\ entries[1] = [date |-> DateAt(2), buy |-> 100, sell |-> 110]
    /\ entries[2] = [date |-> DateAt(4), buy |-> 120, sell |-> 130]

\* C6: a response that leaves fewer than 2 valid points after normalization
\* is treated as insufficient: an error is signalled and no chart data and
\* no stats are stored (nothing is computed from a single point).
C6_InsufficientData ==
    [][\A key \in CRKeys :
         (CRDeliver(key) /\ trendsDb[key].kind = "trends"
            /\ Cardinality(ValidPointIdx(trendsDb[key])) < 2) =>
              /\ chartData' = Null
              /\ stats' = Null
              /\ error' # NoError
    ]_vars

\* C23: after any sequence of fetch completions, select changes, presets,
\* resets and chart clicks, whenever entries is non-empty the entry and the
\* exit date are dates of entries and the entry date is not after the exit
\* date; the range-order error is never on display.
C23_RangeInvariant ==
    /\ error # RangeOrderError
    /\ Len(entries) > 0 =>
          /\ buyDate \in DatesOf(entries)
          /\ sellDate \in DatesOf(entries)
          /\ getTime(buyDate) <= getTime(sellDate)

\* A one-day range in the middle of a three-point series, still selected
\* after a refresh was answered.
C23_Witness ==
    /\ mounted /\ InFlightCount = 0
    /\ dataRefreshTrigger > 0
    /\ Len(entries) = 3
    /\ buyDate = entries[2].date
    /\ sellDate = entries[2].date

\* The earliest and the latest date of a non-empty set of dates.
EarliestOf(D) == CHOOSE d \in D : \A e \in D : getTime(d) <= getTime(e)

LatestOf(D) == CHOOSE d \in D : \A e \in D : getTime(d) >= getTime(e)

\* C28: a fetch that is answered with a usable series keeps the entry date
\* if the new series has it and otherwise takes the earliest date of the new
\* series, and keeps the exit date if the new series has it and otherwise
\* takes the latest date; every fetch, when it starts, resets
\* activePresetDays to null.
C28_RefetchKeepsDates ==
    [][/\ InFlightCount' > InFlightCount => activePresetDays' = NoPreset
       /\ \A key \in CRKeys :
            LET resp == trendsDb[key]
                V == ValidPointIdx(resp)
                D == {resp.dates[i] : i \in V}
            IN  (inflight'[key] < inflight[key] /\ V # {}) =>
                  /\ DatesOf(entries') = D
                  /\ buyDate' = IF buyDate \in D THEN buyDate ELSE EarliestOf(D)
                  /\ sellDate' = IF sellDate \in D THEN sellDate ELSE LatestOf(D)
    ]_vars

\* The second gold type serves two of the three dates of the first: the
\* middle date picked on the first series is still the entry date, and the
\* exit date is the last date the new series has.
C28_Witness ==
    /\ mounted /\ InFlightCount = 0
    /\ goldType = "SJC Ring 1C"
    /\ trendsDb[CRKey("SJC 1L")].kind = "trends"
    /\ Len(trendsDb[CRKey("SJC 1L")].dates) = 3
    /\ Len(entries) = 2
    /\ buyDate = entries[2].date
    /\ sellDate = entries[2].date
    /\ activePresetDays = NoPreset

\* C24: the loading flag is true whenever a request of the component is
\* still awaiting its response, for every interleaving of parameter changes
\* and response arrivals.
C24_LoadingWhileInFlight == InFlightCount > 0 => loading

\* The presets whose button is drawn active.
ActivePresets == {days \in PresetDays : isActive(days)}

\* C29: at most one quick-range preset button is shown active, in every
\* reachable state and for every range of days a pair of dates can span.
C29_OneActivePreset ==
    /\ Cardinality(ActivePresets) <= 1
    /\ \A range \in 0..MaxRangeDays :
          Cardinality({days \in PresetDays : RangeMatches(range, days)}) <= 1

\* A range that matches a preset by tolerance alone, after the exit date
\* was picked by hand.
C29_Witness ==
    /\ Len(entries) > 0
    /\ activePresetDays = NoPreset
    /\ Cardinality(ActivePresets) = 1

----------------------------------------------------------------------------
(* SpreadTrendChart.                                                       *)

\* The slip of hiding an inverted market behind a zero.
SpreadOfClamped(buy, sell) == Max(0, sell - buy)

\* spread: sell - buy
SpreadOf(buy, sell) == sell - buy

\* trends.dates.map(...).filter(Boolean): one { date, spread } per row whose
\* buy and sell are both finite numbers.
SpreadCombined(resp) ==
    FilterFinite([i \in 1..Len(resp.dates) |->
        LET buy == Number(resp.buy_prices[i])
            sell == Number(resp.sell_prices[i])
        IN  [fin |-> buy.fin /\ sell.fin,
             row |-> [date |-> resp.dates[i], spread |-> SpreadOf(buy.v, sell.v)]]])

\* The slip of asking for two points before computing anything.
SpreadEmptyBelowTwo(combined) == Len(combined) < 2

\* combined.length === 0
SpreadEmpty(combined) == Len(combined) = 0

\* setStats({...}); spreads[last] ?? null keeps a spread of 0.
SpreadStats(combined) ==
    LET spreads == [k \in 1..Len(combined) |-> combined[k].spread]
    IN  [currentSpread |-> spreads[Len(spreads)],
         maxSpread |-> MathMax(spreads),
         minSpread |-> MathMin(spreads),
         averageSpread |-> Rat(ReduceSum(spreads), Len(spreads)),
         latestDate |-> combined[Len(combined)].date]

\* setChartData({...}): the labels and the spreads in millions.
SpreadChart(combined) ==
    [labels |-> [k \in 1..Len(combined) |-> formatDateLabel(combined[k].date)],
     data |-> [k \in 1..Len(combined) |-> Rat(combined[k].spread, MILLION)]]

\* What the try / catch of fetchSpreadData writes once the response is in.
SpreadOutcome(resp) ==
    IF resp.kind = "reject"
    THEN [chartData |-> Null, stats |-> Null, failed |-> TRUE]
    ELSE IF resp.kind = "notrends" \/ Len(resp.dates) = 0
    THEN [chartData |-> Null, stats |-> Null, failed |-> FALSE]
    ELSE IF resp.kind = "noprices"
    THEN [chartData |-> Null, stats |-> Null, failed |-> TRUE]
    ELSE LET combined == SpreadCombined(resp)
         IN  IF SpreadEmpty(combined)
             THEN [chartData |-> Null, stats |-> Null, failed |-> FALSE]
             ELSE [chartData |-> SpreadChart(combined),
                   stats |-> SpreadStats(combined),
                   failed |-> FALSE]

SpreadError == "Unable to load spread trend data right now."

\* State of the other components, which SpreadTrendChart does not have.
spFrame == <<chartType, entries, activePresetDays, buyDate, sellDate, values, window,
             averages, appVars, panelVars>>

\* The part of fetchSpreadData before the await, for parameters key.
SPFetchStart(key) ==
    /\ InFlightCount < MaxInFlight
    /\ loading' = TRUE
    /\ error' = NoError
    /\ inflight' = [inflight EXCEPT ![key] = @ + 1]
    /\ UNCHANGED <<chartData, stats>>

\* useEffect on mount.
SPMount ==
    /\ ~mounted
    /\ mounted' = TRUE
    /\ SPFetchStart([goldType |-> goldType, period |-> period])
    /\ UNCHANGED <<goldType, period, dataRefreshTrigger, trendsDb>>
    /\ UNCHANGED spFrame

\* handlePeriodChange, and the effect its re-render runs.
SPhandlePeriodChange(value) ==
    /\ mounted
    /\ value # period
    /\ period' = value
    /\ SPFetchStart([goldType |-> goldType, period |-> value])
    /\ UNCHANGED <<goldType, dataRefreshTrigger, mounted, trendsDb>>
    /\ UNCHANGED spFrame

\* handleGoldTypeChange, and the effect its re-render runs.
SPhandleGoldTypeChange(value) ==
    /\ mounted
    /\ value # goldType
    /\ goldType' = value
    /\ SPFetchStart([goldType |-> value, period |-> period])
    /\ UNCHANGED <<period, dataRefreshTrigger, mounted, trendsDb>>
    /\ UNCHANGED spFrame

\* The App bumps dataRefreshTrigger; the effect refetches.
SPRefresh ==
    /\ mounted
    /\ dataRefreshTrigger < MaxRefresh
    /\ dataRefreshTrigger' = dataRefreshTrigger + 1
    /\ SPFetchStart([goldType |-> goldType, period |-> period])
    /\ UNCHANGED <<goldType, period, mounted, trendsDb>>
    /\ UNCHANGED spFrame

\* The response of a pending request arrives: the rest of fetchSpreadData.
SPDeliver(key) ==
    /\ inflight[key] > 0
    /\ inflight' = [inflight EXCEPT ![key] = @ - 1]
    /\ LET o == SpreadOutcome(trendsDb[key])
       IN  /\ chartData' = o.chartData
           /\ stats' = o.stats
           /\ error' = IF o.failed THEN SpreadError ELSE error
    /\ loading' = FALSE
    /\ UNCHANGED <<goldType, period, dataRefreshTrigger, mounted, trendsDb>>
    /\ UNCHANGED spFrame

\* Rows the backend may serve: a normal market, an inverted one, a flat one,
\* a null buy price, and rows whose buy or sell price is not a number.
SpreadRows ==
    {<<NumCell(100), NumCell(110)>>, <<NumCell(110), NumCell(100)>>,
     <<NumCell(100), NumCell(100)>>, <<NullCell, NumCell(100)>>,
     <<NaNCell, NumCell(110)>>, <<NumCell(100), NaNCell>>}

SpreadTrends(n, rows) ==
    Trends(DatesUpTo(n), [i \in 1..n |-> rows[i][1]], [i \in 1..n |-> rows[i][2]])

SpreadResponses ==
    {Rejected, NoTrends} \cup {NoPrices(DatesUpTo(n)) : n \in 0..1} \cup
    UNION {{SpreadTrends(n, rows) : rows \in [1..n -> SpreadRows]} : n \in 0..MaxLen}

\* Three responses that differ, for backends serving different keys differently.
DistinctSpreadResponses ==
    {Rejected,
     SpreadTrends(1, <<<<NumCell(100), NumCell(110)>>>>),
     SpreadTrends(2, <<<<NumCell(110), NumCell(100)>>, <<NumCell(100), NumCell(110)>>>>)}

SPInit ==
    /\ goldType = "SJC 1L"
    /\ period = "monthly"
    /\ dataRefreshTrigger = 0
    /\ chartType = "percent"
    /\ entries = <<>>
    /\ activePresetDays = NoPreset
    /\ buyDate = NoDate
    /\ sellDate = NoDate
    /\ chartData = Null
    /\ stats = Null
    /\ loading = FALSE
    /\ error = NoError
    /\ mounted = FALSE
    /\ inflight = NoneInFlight
    /\ trendsDb \in {[k \in Keys |-> r] : r \in SpreadResponses}
                    \cup [Keys -> DistinctSpreadResponses]
    /\ values = <<>>
    /\ window = 1
    /\ averages = NotRun
    /\ AppIdle
    /\ PanelIdle

SPNext ==
    \/ SPMount
    \/ \E value \in Periods : SPhandlePeriodChange(value)
    \/ \E value \in GoldTypes : SPhandleGoldTypeChange(value)
    \/ SPRefresh
    \/ \E key \in Keys : SPDeliver(key)

SpecSpread == SPInit /\ [][SPNext]_vars

RECURSIVE SumOver(_, _)
SumOver(resp, S) ==
    IF S = {} THEN 0
    ELSE LET i == CHOOSE x \in S : TRUE
         IN  RawSpread(resp, i) + SumOver(resp, S \ {i})

\* C11: a response with n >= 1 valid points yields a spread series of length
\* n whose element k is sell - buy of the k-th valid point (charted in
\* millions); a point with sell < buy gives a negative element, and the
\* min and mean statistics count it as the negative number it is.
C11_SpreadSeries ==
    [][\A key \in Keys :
         LET resp == trendsDb[key]
             V == ValidPointIdx(resp)
             n == Cardinality(V)
         IN  (SPDeliver(key) /\ n >= 1) =>
               /\ chartData' # Null /\ stats' # Null
               /\ Len(chartData'.data) = n
               /\ Len(chartData'.labels) = n
               /\ \A k \in 1..n :
                    LET i == NthValidPoint(resp, k)
                        x == chartData'.data[k]
                    IN  /\ x.d > 0
                        /\ x.n * MILLION = RawSpread(resp, i) * x.d
                        /\ (SellAt(resp, i) < BuyAt(resp, i)) =>
                              (x.n < 0 /\ stats'.minSpread <= RawSpread(resp, i))
               /\ \A i \in V : stats'.minSpread <= RawSpread(resp, i)
                               /\ RawSpread(resp, i) <= stats'.maxSpread
               /\ stats'.averageSpread.n * n = SumOver(resp, V) * stats'.averageSpread.d
    ]_vars

C11_Witness ==
    /\ mounted /\ ~loading /\ InFlightCount = 0
    /\ Cardinality(ValidPointIdx(trendsDb[CurrentKey])) = 3
    /\ chartData # Null /\ stats # Null
    /\ Len(chartData.data) = 3
    /\ chartData.data[2].n < 0
    /\ chartData.data[3].n > 0
    /\ stats.minSpread < 0
    /\ stats.averageSpread.n > 0

\* C12: for n >= 1 valid points the stats are current = spread of the last
\* valid point, max / min = largest / smallest spread, mean = sum / n and
\* latestDate = date of the last valid point; a payload with rows but no
\* valid point yields neither chart data nor stats.
C12_SpreadStats ==
    [][\A key \in Keys :
         LET resp == trendsDb[key]
             V == ValidPointIdx(resp)
             n == Cardinality(V)
         IN  /\ (SPDeliver(key) /\ n >= 1) =>
                  LET last == NthValidPoint(resp, n)
                  IN  /\ stats' # Null /\ chartData' # Null
                      /\ stats'.currentSpread = RawSpread(resp, last)
                      /\ stats'.latestDate = resp.dates[last]
                      /\ \E i \in V : stats'.maxSpread = RawSpread(resp, i)
                      /\ \E i \in V : stats'.minSpread = RawSpread(resp, i)
                      /\ \A i \in V : /\ stats'.minSpread <= RawSpread(resp, i)
                                      /\ RawSpread(resp, i) <= stats'.maxSpread
                      /\ stats'.averageSpread.d > 0
                      /\ stats'.averageSpread.n * n
                            = SumOver(resp, V) * stats'.averageSpread.d
             /\ (SPDeliver(key) /\ resp.kind = "trends" /\ n = 0) =>
                   (stats' = Null /\ chartData' = Null)
    ]_vars

\* A single valid point (among rows that are dropped) still has its stats.
C12_Witness ==
    /\ mounted /\ ~loading /\ InFlightCount = 0
    /\ trendsDb[CurrentKey].kind = "trends"
    /\ Len(trendsDb[CurrentKey].dates) = 3
    /\ ValidPointIdx(trendsDb[CurrentKey]) = {2}
    /\ stats # Null /\ chartData # Null
    /\ stats.currentSpread = -10
    /\ stats.maxSpread = -10 /\ stats.minSpread = -10
    /\ stats.averageSpread = [n |-> -10, d |-> 1]
    /\ stats.latestDate = DateAt(2)

\* C18: a fetch whose request fails or whose payload is malformed (no trends
\* object, or dates without the price arrays) ends with loading off, an
\* error message, and neither chart data nor stats.
C18_FetchErrorSurfaced ==
    [][\A key \in Keys :
         (SPDeliver(key) /\ trendsDb[key].kind \in {"reject", "notrends", "noprices"}) =>
              /\ ~loading'
              /\ error' # NoError
              /\ chartData' = Null
              /\ stats' = Null
    ]_vars

----------------------------------------------------------------------------
(* The App: the refresh trigger, the update requests and the WebSocket,    *)
(* with CumulativeReturnChart as the child that receives the trigger.      *)
(* The one-second clock (currentTime) is display only and is left out.     *)

MaxTrigger == 2      \* most increments of dataRefreshTrigger followed

\* State of the chart and of calculateMovingAverage the App does not touch
\* unless it signals a refresh.
appChildFrame == <<goldType, period, chartType, buyDate, sellDate, mounted, trendsDb,
                   values, window, averages, panelVars>>

childFetchVars == <<entries, activePresetDays, chartData, stats, loading, error, inflight>>

\* setDataRefreshTrigger(prev => prev + 1), and the fetch effect of the
\* child, whose dependency changed, on the re-render.
RefreshSignal ==
    /\ dataRefreshTrigger < MaxTrigger
    /\ dataRefreshTrigger' = dataRefreshTrigger + 1
    /\ CRFetchStart(goldType)

NoRefreshSignal == UNCHANGED <<dataRefreshTrigger, childFetchVars>>

\* setTimeout returns an id that differs from the previous one.
setTimeout(previous) == IF previous = 1 THEN 2 ELSE 1

\* fetchCurrentPrices() up to its await.
fetchCurrentPrices ==
    /\ pricesInFlight < MaxInFlight
    /\ pricesInFlight' = pricesInFlight + 1

\* connectWebSocket(): the old socket is closed (it is closed already, or
\* there is none), a pending timer is cleared, and a socket is created;
\* when the constructor throws, another attempt is scheduled.  live: the
\* App is mounted, so that its state updates take effect.
connectWebSocket(throws, live) ==
    /\ ws \in {"none", "closed"}
    /\ IF throws
       THEN /\ wsReconnecting' = (live \/ wsReconnecting)
            /\ reconnectTimer' = setTimeout(reconnectTimer)
            /\ UNCHANGED ws
       ELSE /\ ws' = "connecting"
            /\ reconnectTimer' = NoTimer
            /\ UNCHANGED wsReconnecting

\* The App mounts: its children mount and fetch, then its own effects run.
AppMount(throws) ==
    /\ appState = "initial"
    /\ appState' = "mounted"
    /\ mounted' = TRUE
    /\ CRFetchStart(goldType)
    /\ historicalInFlight' = TRUE
    /\ fetchCurrentPrices
    /\ connectWebSocket(throws, TRUE)
    /\ UNCHANGED <<goldType, period, dataRefreshTrigger, chartType, buyDate, sellDate,
                   trendsDb, values, window, averages, panelVars>>
    /\ UNCHANGED <<appLoading, updateInFlight, currentPrices, wsConnected>>

\* The slip of refreshing only when days were added.
HistoricalStatusRefreshesUpdatedOnly(status) == status = "updated"

\* response.data.status === 'updated' || ... === 'up_to_date'
HistoricalStatusRefreshes(status) == status \in {"updated", "up_to_date"}

HistoricalStatuses == {"updated", "up_to_date", "error", "rejected"}

\* updateHistoricalData() after its await; "rejected" is the catch block.
\* State updates of an unmounted component are dropped.
HistoricalResponse(status) ==
    /\ historicalInFlight
    /\ historicalInFlight' = FALSE
    /\ IF appState = "mounted" /\ HistoricalStatusRefreshes(status)
       THEN RefreshSignal
       ELSE NoRefreshSignal
    /\ UNCHANGED appChildFrame
    /\ UNCHANGED <<appState, appLoading, updateInFlight, pricesInFlight, currentPrices,
                   ws, wsConnected, wsReconnecting, reconnectTimer>>

\* setInterval(fetchCurrentPrices, 60000)
PricesInterval ==
    /\ appState = "mounted"
    /\ fetchCurrentPrices
    /\ NoRefreshSignal
    /\ UNCHANGED appChildFrame
    /\ UNCHANGED <<appState, appLoading, updateInFlight, historicalInFlight,
                   currentPrices, ws, wsConnected, wsReconnecting, reconnectTimer>>

\* fetchCurrentPrices() after its await.
PricesResponse(ok) ==
    /\ pricesInFlight > 0
    /\ pricesInFlight' = pricesInFlight - 1
    /\ currentPrices' = IF ok /\ appState = "mounted"
                        THEN [prices |-> TRUE] ELSE currentPrices
    /\ NoRefreshSignal
    /\ UNCHANGED appChildFrame
    /\ UNCHANGED <<appState, appLoading, updateInFlight, historicalInFlight,
                   ws, wsConnected, wsReconnecting, reconnectTimer>>

\* ws.onopen
WSOpen ==
    /\ ws = "connecting"
    /\ ws' = "open"
    /\ wsConnected' = (appState = "mounted" \/ wsConnected)
    /\ wsReconnecting' = (appState # "mounted" /\ wsReconnecting)
    /\ NoRefreshSignal
    /\ UNCHANGED appChildFrame
    /\ UNCHANGED <<appState, appLoading, updateInFlight, historicalInFlight,
                   pricesInFlight, currentPrices, reconnectTimer>>

\* The slip of refreshing on every message the server sends.
MessageRefreshesAlways(type) == TRUE

\* data.type === 'price_update'
MessageRefreshes(type) == type = "price_update"

\* The types of message the socket may deliver; "unparsable" makes JSON.parse
\* throw into the catch block.
MessageTypes == {"price_update", "connection", "heartbeat", "unparsable"}

\* ws.onmessage on the open socket.
WSMessage(type) ==
    /\ ws = "open"
    /\ IF appState = "mounted" /\ MessageRefreshes(type)
       THEN RefreshSignal /\ fetchCurrentPrices
       ELSE NoRefreshSignal /\ UNCHANGED pricesInFlight
    /\ UNCHANGED appChildFrame
    /\ UNCHANGED <<appState, appLoading, updateInFlight, historicalInFlight,
                   currentPrices, ws, wsConnected, wsReconnecting, reconnectTimer>>

\* The slip of reconnecting after a clean close as well.
ShouldReconnectAlways(wasClean) == TRUE

\* !event.wasClean
ShouldReconnect(wasClean) == ~wasClean

\* ws.onclose (ws.onerror before it only logs); a socket that never opened
\* does not close cleanly.
WSClose(wasClean) ==
    /\ ws \in {"connecting", "open", "closing"}
    /\ ws = "connecting" => ~wasClean
    /\ ws' = "closed"
    /\ wsConnected' = (appState # "mounted" /\ wsConnected)
    /\ IF ShouldReconnect(wasClean)
       THEN /\ wsReconnecting' = (appState = "mounted" \/ wsReconnecting)
            /\ reconnectTimer' = setTimeout(reconnectTimer)
       ELSE UNCHANGED <<wsReconnecting, reconnectTimer>>
    /\ NoRefreshSignal
    /\ UNCHANGED appChildFrame
    /\ UNCHANGED <<appState, appLoading, updateInFlight, historicalInFlight,
                   pricesInFlight, currentPrices>>

\* The 5-second timer set by onclose (or by the catch block) fires.
ReconnectTimerFires(throws) ==
    /\ reconnectTimer # NoTimer
    /\ connectWebSocket(throws, appState = "mounted")
    /\ NoRefreshSignal
    /\ UNCHANGED appChildFrame
    /\ UNCHANGED <<appState, appLoading, updateInFlight, historicalInFlight,
                   pricesInFlight, currentPrices, wsConnected>>

\* handleUpdateData up to its await (the button is disabled while loading).
handleUpdateData ==
    /\ appState = "mounted"
    /\ ~appLoading
    /\ appLoading' = TRUE
    /\ updateInFlight' = TRUE
    /\ NoRefreshSignal
    /\ UNCHANGED appChildFrame
    /\ UNCHANGED <<appState, historicalInFlight, pricesInFlight, currentPrices,
                   ws, wsConnected, wsReconnecting, reconnectTimer>>

\* handleUpdateData after its await: the try block or the catch block, then
\* finally.
UpdateResponse(ok) ==
    /\ updateInFlight
    /\ updateInFlight' = FALSE
    /\ appLoading' = (appState # "mounted" /\ appLoading)
    /\ IF ok /\ appState = "mounted"
       THEN RefreshSignal /\ fetchCurrentPrices
       ELSE NoRefreshSignal /\ UNCHANGED pricesInFlight
    /\ UNCHANGED appChildFrame
    /\ UNCHANGED <<appState, historicalInFlight, currentPrices,
                   ws, wsConnected, wsReconnecting, reconnectTimer>>

\* The response of a pending trends request reaches the mounted child.
AppChildDeliver(key) ==
    /\ appState = "mounted"
    /\ CRDeliver(key)

\* The App unmounts: the cleanups clear the intervals, close the socket and
\* clear the reconnect timer.
AppUnmount ==
    /\ appState = "mounted"
    /\ appState' = "unmounted"
    /\ ws' = IF ws \in {"connecting", "open"} THEN "closing" ELSE ws
    /\ reconnectTimer' = NoTimer
    /\ NoRefreshSignal
    /\ UNCHANGED appChildFrame
    /\ UNCHANGED <<appLoading, updateInFlight, historicalInFlight, pricesInFlight,
                   currentPrices, wsConnected, wsReconnecting>>

\* The backend answers with a two-point series, or rejects.
AppTrends ==
    {Rejected,
     CRTrends(2, <<<<NumCell(100), NumCell(110)>>, <<NumCell(120), NumCell(130)>>>>)}

APInit ==
    /\ goldType = "SJC 1L"
    /\ period = DEFAULT_DATA_PERIOD
    /\ dataRefreshTrigger = 0
    /\ chartType = "percent"
    /\ entries = <<>>
    /\ activePresetDays = NoPreset
    /\ buyDate = NoDate
    /\ sellDate = NoDate
    /\ chartData = Null
    /\ stats = Null
    /\ loading = FALSE
    /\ error = NoError
    /\ mounted = FALSE
    /\ inflight = [k \in CRKeys |-> 0]
    /\ trendsDb \in {[k \in CRKeys |-> r] : r \in AppTrends}
    /\ values = <<>>
    /\ window = 1
    /\ averages = NotRun
    /\ AppIdle
    /\ PanelIdle

APNext ==
    \/ \E throws \in BOOLEAN : AppMount(throws)
    \/ \E status \in HistoricalStatuses : HistoricalResponse(status)
    \/ PricesInterval
    \/ \E ok \in BOOLEAN : PricesResponse(ok)
    \/ WSOpen
    \/ \E type \in MessageTypes : WSMessage(type)
    \/ \E wasClean \in BOOLEAN : WSClose(wasClean)
    \/ \E throws \in BOOLEAN : ReconnectTimerFires(throws)
    \/ handleUpdateData
    \/ \E ok \in BOOLEAN : UpdateResponse(ok)
    \/ \E key \in CRKeys : AppChildDeliver(key)
    \/ AppUnmount

SpecApp == APInit /\ [][APNext]_vars

\* The same App with the browser's timers: a pending timeout fires.
SpecAppLive ==
    SpecApp /\ WF_vars(\E throws \in BOOLEAN : ReconnectTimerFires(throws))

\* The step increments the trigger by one and the child issues a fetch; the
\* step leaves the trigger and the child's requests alone.
TriggerBumped ==
    /\ dataRefreshTrigger' = dataRefreshTrigger + 1
    /\ inflight' = [inflight EXCEPT ![CRKey(goldType)] = @ + 1]
    /\ loading'

TriggerKept ==
    /\ dataRefreshTrigger' = dataRefreshTrigger
    /\ inflight' = inflight

TimerIds == {setTimeout(NoTimer), setTimeout(setTimeout(NoTimer))}

\* C22: while the App is mounted, a close that is not clean schedules one
\* reconnect timer (none was pending), with wsReconnecting true and
\* wsConnected false; an attempt that fails at once schedules the next one;
\* a clean close schedules none; and a scheduled reconnect is eventually
\* attempted unless the App unmounts first.
C22_ReconnectScheduled ==
    /\ [][/\ (WSClose(FALSE) /\ appState = "mounted") =>
               /\ reconnectTimer = NoTimer
               /\ reconnectTimer' \in TimerIds
               /\ wsReconnecting'
               /\ ~wsConnected'
          /\ (WSClose(TRUE) /\ appState = "mounted") =>
               /\ reconnectTimer' = NoTimer
               /\ wsReconnecting' = wsReconnecting
          /\ (ReconnectTimerFires(TRUE) /\ appState = "mounted") =>
               /\ reconnectTimer' \in TimerIds \ {reconnectTimer}
               /\ wsReconnecting'
         ]_vars
    /\ \A t \in TimerIds :
          (appState = "mounted" /\ reconnectTimer = t) ~>
             (ws = "connecting" \/ reconnectTimer # t \/ appState # "mounted")

\* The socket of the mounted App was lost and a reconnect is scheduled.
C22_Witness ==
    /\ appState = "mounted"
    /\ ws = "closed"
    /\ reconnectTimer \in TimerIds
    /\ wsReconnecting
    /\ ~wsConnected

\* C27: once the App has unmounted, no reconnect timer is pending and no
\* new connection is being made or open, whatever close event the closed
\* socket delivers.
C27_NoReconnectAfterUnmount ==
    appState = "unmounted" =>
        /\ reconnectTimer = NoTimer
        /\ ws \notin {"connecting", "open"}

----------------------------------------------------------------------------
(* PriceCards: the date picker of the price card.  A body of               *)
(* /api/prices-by-date is the date it was asked for and whether it carries *)
(* SJC results; the live body (the prices prop) carries no date.           *)

MaxDay == 3          \* last calendar day of the picker and of the clock

PCDates == 1..MaxDay

PriceBody(date, sjc) == [date |-> date, sjc |-> sjc]

LiveBodies == {PriceBody(NoDate, TRUE), PriceBody(NoDate, FALSE)}

DatesRejected == [kind |-> "reject"]
DatesMissing == [kind |-> "nodates"]
DatesListed(dates) == [kind |-> "dates", dates |-> dates]

\* State of the other components, which PriceCards does not have.
pcFrame == <<goldType, period, dataRefreshTrigger, chartType, entries,
             activePresetDays, buyDate, sellDate, chartData, stats, error,
             inflight, trendsDb, values, window, averages, selectedGoldTypes,
             appState, appLoading, updateInFlight, historicalInFlight,
             pricesInFlight, ws, wsConnected, wsReconnecting, reconnectTimer>>

\* The slip of comparing the picked date with today's date only.
currentDateToday == today

\* latestAvailableDate || new Date().toISOString().split('T')[0]
currentDate == IF latestAvailableDate # NoDate THEN latestAvailableDate ELSE today

\* displayData, and sjcData = displayData?.sjc?.results?.[0] being there.
displayData ==
    IF viewMode = "historical" /\ historicalPrices # Null
    THEN historicalPrices ELSE currentPrices

hasSjcData == displayData # Null /\ displayData.sjc

\* The card draws its skeleton: no picker and no button.
SkeletonShown == displayData = Null /\ ~loading

\* The mount effect: fetchLatestDate() up to its await.
PCMount ==
    /\ ~mounted
    /\ mounted' = TRUE
    /\ datesInFlight' = TRUE
    /\ UNCHANGED <<selectedDate, historicalPrices, viewMode, latestAvailableDate,
                   historicalFetch, today, availableDates, pricesByDate, loading,
                   currentPrices>>
    /\ UNCHANGED pcFrame

\* fetchLatestDate after the await.
PCDatesResponse ==
    /\ datesInFlight
    /\ datesInFlight' = FALSE
    /\ CASE availableDates.kind = "reject" ->
              /\ selectedDate' = today
              /\ UNCHANGED latestAvailableDate
         [] availableDates.kind = "dates" /\ Len(availableDates.dates) > 0 ->
              /\ latestAvailableDate' = availableDates.dates[1]
              /\ selectedDate' = availableDates.dates[1]
         [] OTHER -> UNCHANGED <<selectedDate, latestAvailableDate>>
    /\ UNCHANGED <<historicalPrices, viewMode, historicalFetch, today, availableDates,
                   pricesByDate, loading, currentPrices, mounted>>
    /\ UNCHANGED pcFrame

\* fetchHistoricalData(date) up to its await.
fetchHistoricalData(date) ==
    IF date = NoDate
    THEN UNCHANGED <<loading, historicalFetch>>
    ELSE /\ loading' = TRUE
         /\ historicalFetch' = date

\* handleDateChange with e.target.value = value; the picker is drawn with
\* the prices and is disabled while loading.
PChandleDateChange(value) ==
    /\ mounted
    /\ hasSjcData /\ ~loading
    /\ value # selectedDate
    /\ selectedDate' = value
    /\ IF value = currentDate
       THEN /\ historicalPrices' = Null
            /\ viewMode' = "current"
            /\ UNCHANGED <<loading, historicalFetch>>
       ELSE /\ fetchHistoricalData(value)
            /\ UNCHANGED <<historicalPrices, viewMode>>
    /\ UNCHANGED <<latestAvailableDate, datesInFlight, today, availableDates,
                   pricesByDate, currentPrices, mounted>>
    /\ UNCHANGED pcFrame

\* handleViewCurrent: the "Current Prices" button, drawn in historical mode.
PChandleViewCurrent ==
    /\ mounted
    /\ viewMode = "historical" /\ ~SkeletonShown
    /\ selectedDate' = currentDate
    /\ historicalPrices' = Null
    /\ viewMode' = "current"
    /\ UNCHANGED <<latestAvailableDate, datesInFlight, historicalFetch, today,
                   availableDates, pricesByDate, loading, currentPrices, mounted>>
    /\ UNCHANGED pcFrame

\* fetchHistoricalData after the await.
PCHistoricalResponse ==
    /\ historicalFetch # NoDate
    /\ historicalFetch' = NoDate
    /\ LET body == pricesByDate[historicalFetch]
       IN  IF body = Null
           THEN /\ historicalPrices' = Null
                /\ UNCHANGED viewMode
           ELSE /\ historicalPrices' = body
                /\ viewMode' = "historical"
    /\ loading' = FALSE
    /\ UNCHANGED <<selectedDate, latestAvailableDate, datesInFlight, today,
                   availableDates, pricesByDate, currentPrices, mounted>>
    /\ UNCHANGED pcFrame

\* The App hands down new live prices (the prices prop).
PCPricesArrive(body) ==
    /\ mounted
    /\ currentPrices # body
    /\ currentPrices' = body
    /\ UNCHANGED <<selectedDate, historicalPrices, viewMode, latestAvailableDate,
                   datesInFlight, historicalFetch, today, availableDates,
                   pricesByDate, loading, mounted>>
    /\ UNCHANGED pcFrame

\* The clock passes midnight.
PCMidnight ==
    /\ mounted
    /\ today < MaxDay
    /\ today' = today + 1
    /\ UNCHANGED <<selectedDate, historicalPrices, viewMode, latestAvailableDate,
                   datesInFlight, historicalFetch, availableDates, pricesByDate,
                   loading, currentPrices, mounted>>
    /\ UNCHANGED pcFrame

\* The lists /api/available-dates may serve (most recent date first).
AvailableResponses ==
    {DatesRejected, DatesMissing, DatesListed(<<>>), DatesListed(<<1>>),
     DatesListed(<<2, 1>>)}

PCInit ==
    /\ goldType = "SJC 1L"
    /\ period = "weekly"
    /\ dataRefreshTrigger = 0
    /\ chartType = "percent"
    /\ entries = <<>>
    /\ activePresetDays = NoPreset
    /\ buyDate = NoDate
    /\ sellDate = NoDate
    /\ chartData = Null
    /\ stats = Null
    /\ loading = FALSE
    /\ error = NoError
    /\ mounted = FALSE
    /\ inflight = <<>>
    /\ trendsDb = <<>>
    /\ values = <<>>
    /\ window = 1
    /\ averages = NotRun
    /\ UCIdle
    /\ today = 2
    /\ selectedDate = today
    /\ historicalPrices = Null
    /\ viewMode = "current"
    /\ latestAvailableDate = NoDate
    /\ datesInFlight = FALSE
    /\ historicalFetch = NoDate
    /\ availableDates \in AvailableResponses
    /\ pricesByDate \in
          {[d \in PCDates |-> IF c[d] = "reject" THEN Null
                              ELSE PriceBody(d, c[d] = "sjc")] :
             c \in [PCDates -> {"reject", "sjc", "nosjc"}]}
    /\ currentPrices = Null
    /\ appState = "initial"
    /\ appLoading = FALSE
    /\ updateInFlight = FALSE
    /\ historicalInFlight = FALSE
    /\ pricesInFlight = 0
    /\ ws = "none"
    /\ wsConnected = FALSE
    /\ wsReconnecting = FALSE
    /\ reconnectTimer = NoTimer

PCNext ==
    \/ PCMount
    \/ PCDatesResponse
    \/ \E value \in PCDates \cup {NoDate} : PChandleDateChange(value)
    \/ PChandleViewCurrent
    \/ PCHistoricalResponse
    \/ \E body \in LiveBodies : PCPricesArrive(body)
    \/ PCMidnight

SpecPriceCards == PCInit /\ [][PCNext]_vars

\* C21: the answer of /api/available-dates with a non-empty list makes its
\* first element the selected and the latest available date; a failed
\* request makes today's date the selected date; and afterwards picking the
\* latest available date puts the card in 'current' mode with
\* historicalPrices cleared, without a historical fetch.
C21_LatestDate ==
    [][/\ (PCDatesResponse /\ availableDates.kind = "dates"
            /\ Len(availableDates.dates) > 0) =>
               /\ selectedDate' = availableDates.dates[1]
               /\ latestAvailableDate' = availableDates.dates[1]
       /\ (PCDatesResponse /\ availableDates.kind = "reject") =>
               selectedDate' = today
       /\ \A value \in PCDates :
            (PChandleDateChange(value) /\ latestAvailableDate # NoDate
             /\ value = latestAvailableDate) =>
               /\ selectedDate' = value
               /\ viewMode' = "current"
               /\ historicalPrices' = Null
               /\ historicalFetch' = NoDate
               /\ ~loading'
    ]_vars

\* The card shows the live prices on the latest available date, which is
\* not today's date, with nothing pending.
C21_Witness ==
    /\ mounted /\ ~datesInFlight
    /\ latestAvailableDate # NoDate
    /\ latestAvailableDate # today
    /\ selectedDate = latestAvailableDate
    /\ viewMode = "current"
    /\ historicalPrices = Null
    /\ historicalFetch = NoDate /\ ~loading
    /\ hasSjcData

\* C25: whenever viewMode is 'historical' and no fetch is in flight, the
\* prices on display are the historical prices that were fetched for the
\* selected date.
C25_HistoricalShown ==
    (viewMode = "historical" /\ historicalFetch = NoDate /\ ~datesInFlight) =>
        /\ historicalPrices # Null
        /\ displayData = historicalPrices
        /\ historicalPrices.date = selectedDate

----------------------------------------------------------------------------
(* UnifiedComparisonChart: several series on one chart.  The period select *)
(* is selectedPeriod (period), a selection is an option of the multi-      *)
(* select, and one call of fetchComparisonData is one pending request that *)
(* captured the selection and the period of its render.                    *)

MaxSelected == 2     \* most series selected at once

\* goldTypeOptions[0].options: a buy and a sell option per gold type.
UCOptions ==
    <<[goldType |-> "SJC 1L", priceType |-> "buy"],
      [goldType |-> "SJC 1L", priceType |-> "sell"],
      [goldType |-> "SJC Ring 1C", priceType |-> "buy"],
      [goldType |-> "SJC Ring 1C", priceType |-> "sell"]>>

\* goldTypeOptions[0].options.slice(0, 2)
defaultSelections == SubSeq(UCOptions, 1, 2)

\* The values the multi-select can hold: options in the order they were
\* picked, none twice.
UCSelections ==
    {sel \in SeqsUpTo({UCOptions[i] : i \in 1..Len(UCOptions)}, MaxSelected) :
        \A i, j \in 1..Len(sel) : i # j => sel[i] # sel[j]}

UCKeys == [selection : UCSelections \ {<<>>}, period : Periods]

UCKey(sel, p) == [selection |-> sel, period |-> p]

\* The body served for one selection under period p.
UCResponseOf(selection, p) ==
    trendsDb[[goldType |-> selection.goldType, period |-> p]]

\* results.filter(r => r !== null && r.data && r.data.dates &&
\* r.data.dates.length > 0), in the order of the selection.
RECURSIVE ValidResults(_, _)
ValidResults(sel, p) ==
    IF sel = <<>> THEN <<>>
    ELSE LET resp == UCResponseOf(Head(sel), p)
             rest == ValidResults(Tail(sel), p)
         IN  IF resp.kind = "trends" /\ Len(resp.dates) > 0
             THEN <<[selection |-> Head(sel), data |-> resp]>> \o rest
             ELSE rest

\* allDatesArrays.reduce((common, dates) => common.filter(date =>
\* dates.includes(date))): the dates of the first series all others have.
CommonDates(valid) ==
    SelectSeq(valid[1].data.dates,
              LAMBDA date : \A i \in 2..Len(valid) :
                  \E j \in 1..Len(valid[i].data.dates) : valid[i].data.dates[j] = date)

\* data.dates.indexOf(date), 1-based.
IndexOfDate(dates, date) ==
    CHOOSE i \in 1..Len(dates) :
        /\ dates[i] = date
        /\ \A j \in 1..(i - 1) : dates[j] # date

\* The price array the option's priceType selects, at index idx.
PriceAt(result, idx) ==
    IF result.selection.priceType = "buy" THEN result.data.buy_prices[idx]
    ELSE result.data.sell_prices[idx]

\* price / 1000000 (0 / 0 stands for NaN).
PerMillion(cell) ==
    LET n == Number(cell)
    IN  IF n.fin THEN Rat(n.v, MILLION) ELSE [n |-> 0, d |-> 0]

\* Math.max(...allDatesArrays.map(dates => new Date(dates[0]).getTime()))
LatestStart(valid) ==
    MathMax([i \in 1..Len(valid) |-> getTime(valid[i].data.dates[1])])

\* The indices (1-based) of the dates of result at or after latestStartDate.
FilteredIndices(result, latestStartDate) ==
    SelectSeq([i \in 1..Len(result.data.dates) |-> i],
              LAMBDA i : getTime(result.data.dates[i]) >= latestStartDate)

\* The chart of the branch without common dates: every series from the
\* latest start date on, the labels being the dates of the first series.
NoCommonChart(valid) ==
    LET latestStartDate == LatestStart(valid)
        indices == [i \in 1..Len(valid) |-> FilteredIndices(valid[i], latestStartDate)]
    IN  [labels |-> [k \in 1..Len(indices[1]) |->
                        formatDateLabel(valid[1].data.dates[indices[1][k]])],
         datasets |-> [i \in 1..Len(valid) |->
                        [label |-> valid[i].selection,
                         data |-> [k \in 1..Len(indices[i]) |->
                                     PerMillion(PriceAt(valid[i], indices[i][k]))]]]]

\* The chart over the common dates.
CommonChart(valid, commonDates) ==
    [labels |-> [k \in 1..Len(commonDates) |-> formatDateLabel(commonDates[k])],
     datasets |-> [i \in 1..Len(valid) |->
                    [label |-> valid[i].selection,
                     data |-> [k \in 1..Len(commonDates) |->
                                 PerMillion(PriceAt(valid[i],
                                     IndexOfDate(valid[i].data.dates, commonDates[k])))]]]]

\* What fetchComparisonData passes to setChartData once every request of
\* the selection sel under period p has settled.
ComparisonChart(sel, p) ==
    LET valid == ValidResults(sel, p)
    IN  IF Len(valid) = 0 THEN Null
        ELSE IF Len(CommonDates(valid)) = 0 THEN NoCommonChart(valid)
        ELSE CommonChart(valid, CommonDates(valid))

\* State of the other components, which UnifiedComparisonChart does not have.
ucFrame == <<goldType, chartType, entries, activePresetDays, buyDate, sellDate, stats,
             error, values, window, averages, appVars, pcVars>>

\* The effect on [selectedGoldTypes, selectedPeriod, dataRefreshTrigger] of a
\* render with selection sel and period p: fetchComparisonData up to its
\* await, when something is selected.
UCFetchEffect(sel, p) ==
    IF Len(sel) > 0
    THEN /\ InFlightCount < MaxInFlight
         /\ loading' = TRUE
         /\ inflight' = [inflight EXCEPT ![UCKey(sel, p)] = @ + 1]
    ELSE UNCHANGED <<loading, inflight>>

\* Mount: the first effect selects the defaults, the second one fetches on
\* the render that follows.
UCMount ==
    /\ ~mounted
    /\ mounted' = TRUE
    /\ selectedGoldTypes' = IF Len(selectedGoldTypes) = 0 THEN defaultSelections
                            ELSE selectedGoldTypes
    /\ UCFetchEffect(selectedGoldTypes', period)
    /\ UNCHANGED <<period, dataRefreshTrigger, chartData, trendsDb>>
    /\ UNCHANGED ucFrame

\* The values the multi-select can report next: one option more, one
\* option less, or none at all.
UCSelectChanges ==
    {sel \in UCSelections :
        \/ sel = <<>> /\ selectedGoldTypes # <<>>
        \/ /\ Len(sel) = Len(selectedGoldTypes) + 1
           /\ SubSeq(sel, 1, Len(selectedGoldTypes)) = selectedGoldTypes
        \/ \E i \in 1..Len(selectedGoldTypes) :
              sel = SubSeq(selectedGoldTypes, 1, i - 1)
                    \o SubSeq(selectedGoldTypes, i + 1, Len(selectedGoldTypes))}

\* onChange={setSelectedGoldTypes} of the multi-select, and the effect.
UCsetSelectedGoldTypes(value) ==
    /\ mounted
    /\ selectedGoldTypes' = value
    /\ UCFetchEffect(value, period)
    /\ UNCHANGED <<period, dataRefreshTrigger, chartData, mounted, trendsDb>>
    /\ UNCHANGED ucFrame

\* setSelectedPeriod(e.target.value) of the period select, and the effect.
UCsetSelectedPeriod(value) ==
    /\ mounted
    /\ value # period
    /\ period' = value
    /\ UCFetchEffect(selectedGoldTypes, value)
    /\ UNCHANGED <<selectedGoldTypes, dataRefreshTrigger, chartData, mounted, trendsDb>>
    /\ UNCHANGED ucFrame

\* The App bumps dataRefreshTrigger, and the effect.
UCRefresh ==
    /\ mounted
    /\ dataRefreshTrigger < MaxRefresh
    /\ dataRefreshTrigger' = dataRefreshTrigger + 1
    /\ UCFetchEffect(selectedGoldTypes, period)
    /\ UNCHANGED <<selectedGoldTypes, period, chartData, mounted, trendsDb>>
    /\ UNCHANGED ucFrame

\* Promise.all of a pending call settles: the rest of fetchComparisonData.
UCDeliver(key) ==
    /\ inflight[key] > 0
    /\ inflight' = [inflight EXCEPT ![key] = @ - 1]
    /\ chartData' = ComparisonChart(key.selection, key.period)
    /\ loading' = FALSE
    /\ UNCHANGED <<selectedGoldTypes, period, dataRefreshTrigger, mounted, trendsDb>>
    /\ UNCHANGED ucFrame

\* The prices the backend quotes: they differ by gold type, period and date,
\* and the sell price is 10 above the buy price.
UCBuyPrice(key, date) ==
    100 * date + (IF key.goldType = "SJC 1L" THEN 0 ELSE 20)
               + (IF key.period = "weekly" THEN 0 ELSE 40)

UCTrends(key, dates) ==
    Trends(dates, [i \in 1..Len(dates) |-> NumCell(UCBuyPrice(key, dates[i]))],
           [i \in 1..Len(dates) |-> NumCell(UCBuyPrice(key, dates[i]) + 10)])

\* What a gold type is served: a failure, a body without trends, or a
\* series over a list of dates.
UCDates(dates) == [kind |-> "dates", dates |-> dates]

\* Backends, as what 'SJC 1L' and 'SJC Ring 1C' are served: series that
\* share no date, series that share some, and series next to a failure, to
\* a body without trends and to an empty series.
UCServed ==
    {<<UCDates(<<DateAt(1), DateAt(3)>>), UCDates(<<DateAt(2), DateAt(4)>>)>>,
     <<UCDates(<<DateAt(1), DateAt(2), DateAt(3)>>), UCDates(<<DateAt(2), DateAt(4)>>)>>,
     <<UCDates(<<DateAt(2), DateAt(4)>>), UCDates(<<DateAt(1), DateAt(2), DateAt(3)>>)>>,
     <<Rejected, UCDates(<<DateAt(2), DateAt(4)>>)>>,
     <<UCDates(<<DateAt(1), DateAt(3)>>), NoTrends>>,
     <<UCDates(<<>>), Rejected>>}

UCInit ==
    /\ goldType = "SJC 1L"
    /\ period = "weekly"
    /\ dataRefreshTrigger = 0
    /\ chartType = "percent"
    /\ entries = <<>>
    /\ activePresetDays = NoPreset
    /\ buyDate = NoDate
    /\ sellDate = NoDate
    /\ chartData = Null
    /\ stats = Null
    /\ loading = FALSE
    /\ error = NoError
    /\ mounted = FALSE
    /\ inflight = [k \in UCKeys |-> 0]
    /\ trendsDb \in
          {[k \in Keys |->
               LET body == IF k.goldType = "SJC 1L" THEN served[1] ELSE served[2]
               IN  IF body.kind = "dates" THEN UCTrends(k, body.dates) ELSE body] :
             served \in UCServed}
    /\ values = <<>>
    /\ window = 1
    /\ averages = NotRun
    /\ AppIdle
    /\ PCIdle
    /\ selectedGoldTypes = <<>>

UCNext ==
    \/ UCMount
    \/ \E value \in UCSelectChanges : UCsetSelectedGoldTypes(value)
    \/ \E value \in Periods : UCsetSelectedPeriod(value)
    \/ UCRefresh
    \/ \E key \in UCKeys : UCDeliver(key)

SpecComparison == UCInit /\ [][UCNext]_vars

\* The series a dataset is drawn from, under period p.
SeriesOf(dataset, p) == UCResponseOf(dataset.label, p)

RawPriceAt(dataset, p, j) ==
    IF dataset.label.priceType = "buy" THEN SeriesOf(dataset, p).buy_prices[j].v
    ELSE SeriesOf(dataset, p).sell_prices[j].v

\* C26: every chart produced has datasets that each hold exactly as many
\* points as there are labels, point k of a dataset being that series'
\* price (in millions) on the date of label k.
C26_DatasetsAligned ==
    [][\A key \in UCKeys :
         (UCDeliver(key) /\ chartData' # Null) =>
            \A i \in 1..Len(chartData'.datasets) :
               LET dataset == chartData'.datasets[i]
                   dates == SeriesOf(dataset, key.period).dates
               IN  /\ Len(dataset.data) = Len(chartData'.labels)
                   /\ \A k \in 1..Len(chartData'.labels) :
                        \E j \in 1..Len(dates) :
                           /\ formatDateLabel(dates[j]) = chartData'.labels[k]
                           /\ dataset.data[k] = Rat(RawPriceAt(dataset, key.period, j), MILLION)
    ]_vars

\* C30: whenever nothing is selected and no fetch is in flight, no chart is
\* displayed.
C30_EmptySelectionNoChart ==
    (mounted /\ Len(selectedGoldTypes) = 0 /\ InFlightCount = 0) => chartData = Null

====
